---- MODULE Spec2Model ----
(***************************************************************************)
(* A model of the interpolator / draw-procedure core of anim_framework     *)
(* (src/anim/common.py): the interpolator combinators as operators over    *)
(* exact rationals, the draw-procedure combinators as step machines over   *)
(* a drawing context with a save stack, and FrameTimeCalc / render_anim.   *)
(***************************************************************************)
EXTENDS Integers, Sequences, FiniteSets, TLC

VARIABLES
    icall,      \* the interpolator call in progress: combinator, arguments, time
    iret,       \* what that call returned or raised
    made,       \* the combinator constructed last: its constructor, arguments, outcome
    mret,       \* what evaluating the object it returned has returned or raised
    g,          \* the drawing context: current transform and save stack
    calls,      \* the calls made so far on the context and on draw procedures
    dcall,      \* the draw procedure in progress: combinator, arguments, time
    dpc,        \* where that draw procedure's code is
    di,         \* its loop index
    frame_times, \* the FrameTimeCalc object
    fcall,      \* the FrameTimeCalc method call in progress
    fret,       \* what that call returned
    gens,       \* the generators made by each_frame, with what each has yielded
    rcall,      \* the arguments and environment of the render_anim call
    rpc,        \* where render_anim's code is
    rloc,       \* render_anim's local variables
    files,      \* the image files written to out_dir, in the order written
    stderr,     \* the progress lines written
    now,        \* the wall clock, time.time()
    rret        \* what render_anim returned or raised

made_vars == <<made, mret>>
interp_vars == <<icall, iret, made, mret>>
draw_vars == <<g, calls, dcall, dpc, di>>
frame_vars == <<frame_times, fcall, fret, gens>>
render_vars == <<rcall, rpc, rloc, files, stderr, now, rret>>
vars == <<icall, iret, made, mret, g, calls, dcall, dpc, di, frame_times, fcall, fret, gens,
          rcall, rpc, rloc, files, stderr, now, rret>>

(***************************************************************************)
(* Bounds of the model.                                                    *)
(***************************************************************************)
\* greatest boundary value of an x_vals sequence
MaxX == 3
\* greatest number of boundaries in an x_vals sequence
MaxLen == 4
\* greatest number of draw procedures given to draw_overlay / draw_compose
MaxProcs == 3
\* latest end_time of an animation
MaxT == 2
\* bits in the significand of a float
MantissaBits == 3

(***************************************************************************)
(* Exact arithmetic: a number is a pair <<numerator, denominator>> in      *)
(* lowest terms with a positive denominator.                               *)
(***************************************************************************)
Abs(n) == IF n < 0 THEN -n ELSE n

RECURSIVE GCD(_, _)
GCD(a, b) == IF b = 0 THEN a ELSE GCD(b, a % b)

RNorm(n, d) ==
    LET s == IF d < 0 THEN -1 ELSE 1
        k == GCD(Abs(n), Abs(d))
    IN  <<(s * n) \div k, (s * d) \div k>>

R(n) == <<n, 1>>
RAdd(a, b) == RNorm(a[1] * b[2] + b[1] * a[2], a[2] * b[2])
RSub(a, b) == RNorm(a[1] * b[2] - b[1] * a[2], a[2] * b[2])
RMul(a, b) == RNorm(a[1] * b[1], a[2] * b[2])
\* defined for b # 0 only; callers raise ZeroDivisionError before using it
RDiv(a, b) == RNorm(a[1] * b[2], a[2] * b[1])
RLt(a, b) == a[1] * b[2] < b[1] * a[2]
RLe(a, b) == a[1] * b[2] <= b[1] * a[2]
RGe(a, b) == RLe(b, a)
RGt(a, b) == RLt(b, a)

(***************************************************************************)
(* Python numbers.  The arithmetic of the code is that of its arguments:   *)
(* exact for fractions.Fraction, rounded after every operation for float   *)
(* (and for int, whose true division gives a float).  A float is a number  *)
(* m * 2^e with |m| < 2^MantissaBits; results are rounded to the nearest   *)
(* float, a tie to the one with even m.                                    *)
(***************************************************************************)
NumberTypes == {"Fraction", "float"}

RECURSIVE Pow2(_)
Pow2(n) == IF n = 0 THEN 1 ELSE 2 * Pow2(n - 1)

RFloor(a) == a[1] \div a[2]
RTrunc(a) == IF a[1] < 0 THEN -((-a[1]) \div a[2]) ELSE a[1] \div a[2]

\* the integer nearest to a, a tie to the even one (RFloor rounds down, and
\* the remainder of a negative integer by 2 is 0 or 1)
RoundHalfEven(a) ==
    LET f == RFloor(a)
        twice == 2 * (a[1] - f * a[2])
    IN  IF twice < a[2] THEN f
        ELSE IF twice > a[2] THEN f + 1
        ELSE IF f % 2 = 0 THEN f ELSE f + 1

\* a > 0 rounded to MantissaBits significant bits
RECURSIVE RoundSignificand(_)
RoundSignificand(a) ==
    IF RGe(a, R(Pow2(MantissaBits))) THEN RMul(R(2), RoundSignificand(RDiv(a, R(2))))
    ELSE IF RLt(a, R(Pow2(MantissaBits - 1))) THEN RDiv(RoundSignificand(RMul(a, R(2))), R(2))
    ELSE R(RoundHalfEven(a))

\* the float nearest to the number a
Fl(a) ==
    IF a[1] = 0 THEN a
    ELSE IF a[1] < 0 THEN RSub(R(0), RoundSignificand(RSub(R(0), a)))
    ELSE RoundSignificand(a)

\* a + b, a - b, a * b, a / b (b # 0) in the arithmetic of number type num
Add(num, a, b) == IF num = "float" THEN Fl(RAdd(a, b)) ELSE RAdd(a, b)
Sub(num, a, b) == IF num = "float" THEN Fl(RSub(a, b)) ELSE RSub(a, b)
Mul(num, a, b) == IF num = "float" THEN Fl(RMul(a, b)) ELSE RMul(a, b)
Div(num, a, b) == IF num = "float" THEN Fl(RDiv(a, b)) ELSE RDiv(a, b)

\* a % b (b # 0).  Fraction: a - b * floor(a / b).  float: the exact fmod(a, b),
\* which has the sign of a, and b added to it when its sign is not that of b
Mod(num, a, b) ==
    IF num = "float"
    THEN LET mod == RSub(a, RMul(b, R(RTrunc(RDiv(a, b)))))
         IN  IF mod[1] # 0 /\ ((b[1] < 0) # (mod[1] < 0)) THEN Fl(RAdd(mod, b)) ELSE mod
    ELSE RSub(a, RMul(b, R(RFloor(RDiv(a, b)))))

\* the numbers of type num among S
OfType(num, S) == {a \in S : num = "float" => Fl(a) = a}

(***************************************************************************)
(* The program is single-threaded: a call starts when no other is running. *)
(***************************************************************************)
Quiet ==
    /\ icall.op = "idle" /\ made.op = "none"
    /\ dpc = "idle" /\ rpc = "idle" /\ fcall.op = "idle"

(***************************************************************************)
(* Results of a call: a returned value or a raised exception.              *)
(***************************************************************************)
Return(v) == [exc |-> "none", val |-> v]
Raise(e) == [exc |-> e, val |-> R(0)]

(***************************************************************************)
(* Python sequences: 0-based indices, negative indices count from the end, *)
(* anything else raises IndexError.                                        *)
(***************************************************************************)
ValidIndex(s, i) == -Len(s) <= i /\ i < Len(s)
PyGet(s, i) == IF i < 0 THEN s[Len(s) + i + 1] ELSE s[i + 1]

(***************************************************************************)
(* Objects passed where "a constant or an interpolator" is accepted.       *)
(*   type : the Python type of the object                                  *)
(*   tag  : its is_interpolator attribute ("absent", "true", "false")      *)
(*   kind : what it computes when called; p its parameters                 *)
(***************************************************************************)
Number(y) == [type |-> "number", tag |-> "absent", kind |-> "value", p |-> <<y>>]
Function(kind, p) == [type |-> "function", tag |-> "absent", kind |-> kind, p |-> p]

interpolator(f) == [f EXCEPT !.tag = "true"]

\* is_interpolator with the test of the type left out
is_interpolator_by_tag(f) == f.tag # "absent" /\ f.tag = "true"

is_interpolator(f) == f.type = "function" /\ f.tag # "absent" /\ f.tag = "true"

\* lambda x : y
constant_interpolator(y) == interpolator(Function("constant", <<y>>))

\* ensure_interpolator with every argument wrapped
ensure_interpolator_wrapping(f) == constant_interpolator(f)

\* a non-interpolator f is wrapped whole: the constant returned is f itself
ensure_interpolator(f) == IF is_interpolator(f) THEN f ELSE constant_interpolator(f)

linear_interpolator(from_x, to_x, from_y, to_y) ==
    interpolator(Function("linear", <<from_x, to_x, from_y, to_y>>))

\* a user-written interpolator, lambda x : x * x * (to_y - from_y) + from_y,
\* put through the interpolator decorator
square_interpolator(from_y, to_y) == interpolator(Function("square", <<from_y, to_y>>))

\* the number an object stands for when it is used in arithmetic
NumberOf(v) == v.p[1]

\* lambda x : (x - from_x) / (to_x - from_x) * (to_y - from_y) + from_y
LinearValue(num, from_x, to_x, from_y, to_y, x) ==
    Add(num, Mul(num, Div(num, Sub(num, x, from_x), Sub(num, to_x, from_x)),
                      Sub(num, to_y, from_y)),
             from_y)

\* calling the function object f with argument x, numbers being of type num
ApplyIn(num, f, x) ==
    CASE f.kind = "constant" -> NumberOf(f.p[1])
      [] f.kind = "linear" -> LinearValue(num, f.p[1], f.p[2], f.p[3], f.p[4], x)
      [] f.kind = "square" ->
            Add(num, Mul(num, Mul(num, x, x), Sub(num, f.p[2], f.p[1])), f.p[1])

\* calling the function object f with a Fraction x
Apply(f, x) == ApplyIn("Fraction", f, x)

(***************************************************************************)
(* piecewise_interpolator                                                  *)
(***************************************************************************)
\* the tuple interps is rebound to at construction
EnsureAll(interps) == [k \in 1..Len(interps) |-> ensure_interpolator(interps[k])]

\* the loop's exit test with a boundary itself counted to the segment above it
PiecewiseStopStrict(x_vals, interps, x, i) ==
    i >= Len(interps) - 1 \/ RGt(PyGet(x_vals, i + 1), x)

\* the loop's exit test
PiecewiseStop(x_vals, interps, x, i) ==
    i >= Len(interps) - 1 \/ RGe(PyGet(x_vals, i + 1), x)

\* NextOffset with the start value of the next segment left out of the correction
NextOffsetNoStart(interps, i, y_offset) ==
    RAdd(y_offset, Apply(PyGet(interps, i), R(1)))

\* y_offset += interps[i](1) - interps[i + 1](0)
NextOffset(interps, i, y_offset) ==
    RAdd(y_offset, RSub(Apply(PyGet(interps, i), R(1)), Apply(PyGet(interps, i + 1), R(0))))

\* the value computed in the selected segment
SegmentValue(x_vals, interps, x, i, y_offset) ==
    RAdd(Apply(PyGet(interps, i),
               RDiv(RSub(x, PyGet(x_vals, i)), RSub(PyGet(x_vals, i + 1), PyGet(x_vals, i)))),
         y_offset)

\* the while loop of interpolate, from locals (i, y_offset); its result is the
\* locals at the break: the segment i, the running offset and y, or the
\* ZeroDivisionError of normalizing x over a segment of no width
RECURSIVE PiecewiseLoop(_, _, _, _, _)
PiecewiseLoop(x_vals, interps, x, i, y_offset) ==
    IF PiecewiseStop(x_vals, interps, x, i)
    THEN IF PyGet(x_vals, i + 1) = PyGet(x_vals, i)
         THEN [i |-> i, y_offset |-> y_offset, y |-> R(0), exc |-> "ZeroDivisionError"]
         ELSE [i |-> i, y_offset |-> y_offset,
               y |-> SegmentValue(x_vals, interps, x, i, y_offset), exc |-> "none"]
    ELSE PiecewiseLoop(x_vals, interps, x, i + 1, NextOffset(interps, i, y_offset))

interpolate(x_vals, interps, x) == PiecewiseLoop(x_vals, interps, x, 0, R(0))

\* piecewise_interpolator with its assertion left out
PiecewiseArgsUnchecked(x_vals, interps) == TRUE

\* assert len(x_vals) >= 2 and len(interps) + 1 == len(x_vals)
PiecewiseArgsOk(x_vals, interps) == Len(x_vals) >= 2 /\ Len(interps) + 1 = Len(x_vals)

\* piecewise_interpolator(x_vals, interps)(x)
piecewise_interpolator(x_vals, interps, x) ==
    IF ~PiecewiseArgsOk(x_vals, interps)
    THEN Raise("AssertionError")
    ELSE LET r == interpolate(x_vals, EnsureAll(interps), x)
         IN  IF r.exc # "none" THEN Raise(r.exc) ELSE Return(r.y)

(***************************************************************************)
(* step_interpolator                                                       *)
(***************************************************************************)
RECURSIVE StepLoop(_, _, _, _)
StepLoop(x_vals, y_vals, x, i) ==
    IF ~ValidIndex(x_vals, i) THEN Raise("IndexError")
    ELSE IF RGt(PyGet(x_vals, i), x) THEN StepLoop(x_vals, y_vals, x, i - 1)
    ELSE IF ~ValidIndex(y_vals, i) THEN Raise("IndexError")
    ELSE Return(PyGet(y_vals, i))

step_interpolate(x_vals, y_vals, x) == StepLoop(x_vals, y_vals, x, Len(x_vals) - 2)

\* assert len(x_vals) >= 2 and len(x_vals) == len(y_vals) + 1
StepArgsOk(x_vals, y_vals) == Len(x_vals) >= 2 /\ Len(x_vals) = Len(y_vals) + 1

\* step_interpolator(x_vals, y_vals)(x)
step_interpolator(x_vals, y_vals, x) ==
    IF ~StepArgsOk(x_vals, y_vals)
    THEN Raise("AssertionError")
    ELSE step_interpolate(x_vals, y_vals, x)

(***************************************************************************)
(* Inputs of the interpolator calls.                                       *)
(***************************************************************************)
\* strictly increasing boundary sequences of n integers in 0..MaxX
RECURSIVE Increasing(_, _)
Increasing(n, lo) ==
    IF n = 0 THEN {<<>>}
    ELSE UNION {{<<R(v)>> \o s : s \in Increasing(n - 1, v + 1)} : v \in lo..MaxX}

BoundarySeqs == UNION {Increasing(n, 0) : n \in 2..MaxLen}

\* animation times: the half-integers from -1 to MaxX + 1
Times == {RNorm(k, 2) : k \in (-2)..(2 * MaxX + 2)}

\* what a caller passes as a segment's interpolator
SubInterps ==
    { Number(R(2)),
      linear_interpolator(R(0), R(1), R(0), R(3)),
      linear_interpolator(R(0), R(1), R(4), R(1)),
      square_interpolator(R(1), R(2)) }

RECURSIVE SeqsOf(_, _)
SeqsOf(S, n) ==
    IF n = 0 THEN {<<>>} ELSE {<<e>> \o s : e \in S, s \in SeqsOf(S, n - 1)}

\* the values of a step function: distinct markers 100, 101, ...
Markers(n) == [k \in 1..n |-> R(99 + k)]

Idle == [op |-> "idle", num |-> "Fraction", x_vals |-> <<>>, args |-> <<>>, x |-> R(0)]
NoResult == Raise("pending")

CallPiecewise ==
    /\ Quiet
    /\ \E x_vals \in BoundarySeqs, x \in Times :
         \E interps \in SeqsOf(SubInterps, Len(x_vals) - 1) :
            /\ icall' = [op |-> "piecewise", num |-> "Fraction", x_vals |-> x_vals, args |-> interps, x |-> x]
            /\ iret' = piecewise_interpolator(x_vals, interps, x)
    /\ UNCHANGED <<made_vars, draw_vars, frame_vars, render_vars>>

CallStep ==
    /\ Quiet
    /\ \E x_vals \in BoundarySeqs, x \in Times :
            /\ icall' = [op |-> "step", num |-> "Fraction", x_vals |-> x_vals,
                         args |-> Markers(Len(x_vals) - 1), x |-> x]
            /\ iret' = step_interpolator(x_vals, Markers(Len(x_vals) - 1), x)
    /\ UNCHANGED <<made_vars, draw_vars, frame_vars, render_vars>>

InterpDone ==
    /\ icall.op # "idle"
    /\ icall' = Idle
    /\ iret' = NoResult
    /\ UNCHANGED <<made_vars, draw_vars, frame_vars, render_vars>>

(***************************************************************************)
(* The interpolator calls: one action per combinator, applied to inputs    *)
(* drawn from the sets above.                                              *)
(***************************************************************************)
NoFunction == [code |-> "none", x_vals |-> <<>>, args |-> <<>>]
NoObject == [op |-> "none", x_vals |-> <<>>, args |-> <<>>, exc |-> "none",
             fn |-> NoFunction]
NoEval == [exc |-> "pending", x |-> R(0), val |-> Number(R(0))]

InitInterp == icall = Idle /\ iret = NoResult /\ made = NoObject /\ mret = NoEval

NextInterp == CallPiecewise \/ CallStep \/ InterpDone

(***************************************************************************)
(* Interpolators evaluated on numbers of either type.                      *)
(***************************************************************************)
\* the arguments of linear_interpolator
LinearXs == {R(0), R(1), R(2)}
LinearYs == {R(0), RNorm(1, 2), R(1), R(3), R(7)}

\* linear_interpolator(from_x, to_x, from_y, to_y)(x)
CallLinear ==
    /\ Quiet
    /\ \E num \in NumberTypes :
          \E from_x \in OfType(num, LinearXs), to_x \in OfType(num, LinearXs),
             from_y \in OfType(num, LinearYs), to_y \in OfType(num, LinearYs),
             x \in OfType(num, Times) :
            /\ icall' = [op |-> "linear", num |-> num, x_vals |-> <<>>,
                         args |-> <<from_x, to_x, from_y, to_y>>, x |-> x]
            /\ iret' = IF to_x = from_x THEN Raise("ZeroDivisionError")
                       ELSE Return(ApplyIn(num, linear_interpolator(from_x, to_x, from_y, to_y),
                                           x))
    /\ UNCHANGED <<made_vars, draw_vars, frame_vars, render_vars>>

\* the argument periodic_interpolator's lambda passes to interp:
\* (x - offset) % (to_x - from_x) + from_x
PeriodicArg(num, from_x, to_x, offset, x) ==
    Add(num, Mod(num, Sub(num, x, offset), Sub(num, to_x, from_x)), from_x)

\* periodic_interpolator(from_x, to_x, interp, offset)(x)
periodic_interpolator(num, from_x, to_x, interp, offset, x) ==
    IF Sub(num, to_x, from_x) = R(0) THEN Raise("ZeroDivisionError")
    ELSE Return(ApplyIn(num, interp, PeriodicArg(num, from_x, to_x, offset, x)))

\* the times periodic interpolators are evaluated at: Times, and two times
\* just below 0
PeriodicTimes == Times \cup {RNorm(-1, 16), RNorm(-1, 8)}

\* the interpolators repeated: the identity on [0, 1], and a square
PeriodicInterps == {linear_interpolator(R(0), R(1), R(0), R(1)),
                    square_interpolator(R(1), R(2))}

CallPeriodic ==
    /\ Quiet
    /\ \E num \in NumberTypes :
          \E from_x \in OfType(num, LinearXs), to_x \in OfType(num, LinearXs),
             interp \in PeriodicInterps, offset \in {R(0), RNorm(1, 2)},
             x \in OfType(num, PeriodicTimes) :
            /\ icall' = [op |-> "periodic", num |-> num, x_vals |-> <<>>,
                         args |-> <<from_x, to_x, interp, offset>>, x |-> x]
            /\ iret' = periodic_interpolator(num, from_x, to_x, interp, offset, x)
    /\ UNCHANGED <<made_vars, draw_vars, frame_vars, render_vars>>

\* x_vals - 1 where x_vals is a list or a tuple: neither type has a - operator
SequenceMinus(x_vals, n) == Raise("TypeError")

\* the generator handed to tuple(): linear_interpolator(0, 1, y_vals[i],
\* y_vals[i + 1]) for i in range(0, stop)
SegmentLinears(y_vals, stop) ==
    [k \in 1..stop |->
        linear_interpolator(R(0), R(1), PyGet(y_vals, k - 1), PyGet(y_vals, k))]

\* piecewise_linear_interpolator(x_vals, y_vals)(x)
piecewise_linear_interpolator(x_vals, y_vals, x) ==
    IF ~(Len(x_vals) >= 2 /\ Len(x_vals) = Len(y_vals))
    THEN Raise("AssertionError")
    ELSE LET stop == SequenceMinus(x_vals, 1)
         IN  IF stop.exc # "none" THEN Raise(stop.exc)
             ELSE piecewise_interpolator(x_vals, SegmentLinears(y_vals, stop.val), x)

\* the y_vals of a piecewise_linear_interpolator over n boundaries
LinearYVals(n) == [k \in 1..n |-> R((k * k + 2) % 5)]

CallPiecewiseLinear ==
    /\ Quiet
    /\ \E x_vals \in BoundarySeqs, x \in Times :
            /\ icall' = [op |-> "piecewise_linear", num |-> "Fraction", x_vals |-> x_vals,
                         args |-> LinearYVals(Len(x_vals)), x |-> x]
            /\ iret' = piecewise_linear_interpolator(x_vals, LinearYVals(Len(x_vals)), x)
    /\ UNCHANGED <<made_vars, draw_vars, frame_vars, render_vars>>

\* ease_ratio = .5
ease_ratio == RNorm(1, 2)

\* the values ease_inout_interpolator computes before defining ease_inout,
\* or the ZeroDivisionError one of them ends in; has1 / has2 tell whether
\* dy1p / dy2p is a number (not None)
EaseLocals(x0, x1, x2, x3, from_y, to_y) ==
    IF x3 = x0 THEN Raise("ZeroDivisionError")
    ELSE LET y1 == RAdd(RMul(RMul(RDiv(RSub(x1, x0), RSub(x3, x0)), RSub(to_y, from_y)),
                             ease_ratio), from_y)
             y2 == RAdd(RMul(RMul(RDiv(RSub(x2, x3), RSub(x0, x3)), RSub(from_y, to_y)),
                             ease_ratio), to_y)
         IN  IF y2 = y1 THEN Raise("ZeroDivisionError")
             ELSE LET x1p == RAdd(RMul(RDiv(RSub(x2, x1), RSub(y2, y1)), RSub(x1, x0)), x0)
                      x2p == RAdd(RMul(RDiv(RSub(x1, x2), RSub(y1, y2)), RSub(x2, x3)), x3)
                  IN  IF (x1 # x0 /\ x1p = x0) \/ (x2 # x3 /\ x2p = x3)
                      THEN Raise("ZeroDivisionError")
                      ELSE Return([y1 |-> y1, y2 |-> y2, x1p |-> x1p, x2p |-> x2p,
                                   has1 |-> x1 # x0, has2 |-> x2 # x3,
                                   dy1p |-> IF x1 # x0
                                            THEN LET q == RDiv(RSub(x1, x0), RSub(x1p, x0))
                                                 IN  RMul(q, q)
                                            ELSE R(0),
                                   dy2p |-> IF x2 # x3
                                            THEN LET q == RDiv(RSub(x2, x3), RSub(x2p, x3))
                                                 IN  RMul(q, q)
                                            ELSE R(0)])

\* ease_inout(x), with the locals v of the enclosing call
ease_inout(x0, x1, x2, x3, from_y, to_y, v, x) ==
    IF RLt(x, x1) /\ v.has1
    THEN LET q == RDiv(RSub(x, x0), RSub(v.x1p, x0))
         IN  Return(RAdd(RMul(RDiv(RMul(q, q), v.dy1p), RSub(v.y1, from_y)), from_y))
    ELSE IF RGt(x, x2) /\ v.has2
    THEN LET q == RDiv(RSub(x, x3), RSub(v.x2p, x3))
         IN  Return(RAdd(RMul(RDiv(RMul(q, q), v.dy2p), RSub(v.y2, to_y)), to_y))
    ELSE IF x2 = x1 THEN Raise("ZeroDivisionError")
    ELSE Return(RAdd(RMul(RDiv(RSub(x, x1), RSub(x2, x1)), RSub(v.y2, v.y1)), v.y1))

\* ease_inout_interpolator(x0, x1, x2, x3, from_y, to_y)(x)
ease_inout_interpolator(x0, x1, x2, x3, from_y, to_y, x) ==
    LET v == EaseLocals(x0, x1, x2, x3, from_y, to_y)
    IN  IF v.exc # "none" THEN Raise(v.exc)
        ELSE ease_inout(x0, x1, x2, x3, from_y, to_y, v.val, x)

\* breakpoints x0 <= x1 <= x2 <= x3 in 0..MaxX + 1, as sequences
RECURSIVE NonDecreasing(_, _)
NonDecreasing(n, lo) ==
    IF n = 0 THEN {<<>>}
    ELSE UNION {{<<R(v)>> \o s : s \in NonDecreasing(n - 1, v)} : v \in lo..(MaxX + 1)}

EaseYs == {R(0), R(1), R(3)}

CallEaseInout ==
    /\ Quiet
    /\ \E xs \in NonDecreasing(4, 0), from_y \in EaseYs, to_y \in EaseYs, x \in Times :
            /\ icall' = [op |-> "ease_inout", num |-> "Fraction", x_vals |-> xs,
                         args |-> <<from_y, to_y>>, x |-> x]
            /\ iret' = ease_inout_interpolator(xs[1], xs[2], xs[3], xs[4], from_y, to_y, x)
    /\ UNCHANGED <<made_vars, draw_vars, frame_vars, render_vars>>

NextNumeric ==
    \/ CallLinear \/ CallPeriodic \/ CallPiecewiseLinear \/ CallEaseInout \/ InterpDone

(***************************************************************************)
(* The drawing context (qahirah.Context): the current transform, and the   *)
(* stack of graphics states pushed by save and popped by restore.  Each    *)
(* call is logged with the graphics state in effect when it was made.      *)
(***************************************************************************)
Event(op, by, arg, ctx) ==
    [op |-> op, by |-> by, arg |-> arg, ctm |-> ctx.ctm, depth |-> Len(ctx.stack)]

\* an environment: the context, the call log, and the exception in flight
Env(ctx, log) == [g |-> ctx, calls |-> log, exc |-> "none"]

Log(e, op, by, arg) == [e EXCEPT !.calls = Append(@, Event(op, by, arg, e.g))]

\* g.save()
save(e, by) == [Log(e, "save", by, <<>>) EXCEPT !.g.stack = Append(@, e.g.ctm)]

\* g.restore(): pops the graphics state saved last
restore(e, by) ==
    IF e.g.stack = <<>> THEN [Log(e, "restore", by, <<>>) EXCEPT !.exc = "CairoError"]
    ELSE [Log(e, "restore", by, <<>>) EXCEPT
            !.g.ctm = e.g.stack[Len(e.g.stack)],
            !.g.stack = SubSeq(e.g.stack, 1, Len(e.g.stack) - 1)]

\* g.translate(...), g.scale(...): two changes of the transform that do not commute
translate(e, by) == [Log(e, "translate", by, <<>>) EXCEPT !.g.ctm = e.g.ctm + 1]
scale(e, by) == [Log(e, "scale", by, <<>>) EXCEPT !.g.ctm = e.g.ctm * 2]

\* a raise statement
raise(e, exc) == [e EXCEPT !.exc = exc]

(***************************************************************************)
(* Draw procedures: callables (g, x) written by the user of the framework. *)
(***************************************************************************)
Proc(kind) == [type |-> "function", kind |-> kind, items |-> <<>>]
Tuple(items) == [type |-> "tuple", kind |-> "tuple", items |-> items]

null_draw == Proc("null_draw")

\* the object None, passed where a draw procedure is optional
None == [type |-> "NoneType", kind |-> "None", items |-> <<>>]

\* the draw procedures callers pass: one that does nothing, two that change
\* the transform, one that changes it inside its own save/restore, one that
\* saves without restoring, and one that raises after changing the transform
ProcKinds == {"null_draw", "translate", "scale", "scoped", "save_only", "raises"}
Procs == {Proc(k) : k \in ProcKinds}

\* proc(g, x), called by `by` as its draw procedure number idx
CallProc(e, proc, idx, x, by) ==
    LET e0 == Log(e, "call", by, <<idx, x>>)
    IN  CASE proc.kind = "null_draw" -> e0
          [] proc.kind = "translate" -> translate(e0, "proc")
          [] proc.kind = "scale" -> scale(e0, "proc")
          [] proc.kind = "scoped" -> restore(translate(save(e0, "proc"), "proc"), "proc")
          [] proc.kind = "save_only" -> translate(save(e0, "proc"), "proc")
          [] proc.kind = "raises" -> raise(translate(e0, "proc"), "RuntimeError")
          [] proc.kind = "raise_late" ->
                IF RGe(x, R(1)) THEN raise(translate(e0, "proc"), "RuntimeError")
                ELSE translate(e0, "proc")

(***************************************************************************)
(* draw_overlay, draw_compose, draw_sequence                               *)
(***************************************************************************)
\* a single tuple argument stands for the draw procedures it holds
Unwrap(draw_procs) ==
    IF Len(draw_procs) = 1 /\ draw_procs[1].type = "tuple"
    THEN draw_procs[1].items
    ELSE draw_procs

\* SelectLoop with a boundary itself counted to the lower segment
RECURSIVE SelectLoopExclusive(_, _, _)
SelectLoopExclusive(x_vals, x, i) ==
    IF i = 0 THEN 0
    ELSE IF RGt(x, PyGet(x_vals, i - 1)) THEN i
    ELSE SelectLoopExclusive(x_vals, x, i - 1)

\* the loop of select_from_sequence, from local i; its result is the i selected
RECURSIVE SelectLoop(_, _, _)
SelectLoop(x_vals, x, i) ==
    IF i = 0 THEN 0
    ELSE IF RGe(x, PyGet(x_vals, i - 1)) THEN i
    ELSE SelectLoop(x_vals, x, i - 1)

\* draw_sequence's check of its arguments
SequenceArgsOk(x_vals, draws) == Len(draws) # 0 /\ Len(x_vals) + 1 = Len(draws)

\* the contexts a draw procedure is called on: a fresh one, and one whose
\* transform was changed and saved before
Contexts == { [ctm |-> 1, stack |-> <<>>], [ctm |-> 3, stack |-> <<1>>] }

\* argument lists of draw_overlay / draw_compose: the procedures themselves,
\* or one tuple of them
ProcLists == UNION {SeqsOf(Procs, n) : n \in 0..MaxProcs}
ArgLists == ProcLists \cup {<<Tuple(l)>> : l \in ProcLists}

\* the draw procedures of a draw_sequence over n boundaries
SequenceDraws(n) ==
    [k \in 1..(n + 1) |->
        Proc(CASE k % 4 = 1 -> "null_draw" [] k % 4 = 2 -> "translate"
               [] k % 4 = 3 -> "scale" [] OTHER -> "scoped")]

SequenceBoundaries == UNION {Increasing(n, 0) : n \in 0..(MaxLen - 1)}

DIdle == [op |-> "idle", draw_procs |-> <<>>, x_vals |-> <<>>, x |-> R(0),
          entry |-> [ctm |-> 1, stack |-> <<>>]]

\* the combinator is constructed and the draw procedure it returns is called
CallDraw(op, draw_procs, x_vals, x, ctx) ==
    /\ dcall' = [op |-> op, draw_procs |-> draw_procs, x_vals |-> x_vals, x |-> x,
                 entry |-> ctx]
    /\ g' = ctx
    /\ calls' = <<>>
    /\ di' = 0
    /\ dpc' = "loop"
    /\ UNCHANGED <<interp_vars, frame_vars, render_vars>>

CallOverlay ==
    /\ Quiet
    /\ \E args \in ArgLists, ctx \in Contexts :
        CallDraw("draw_overlay", Unwrap(args), <<>>, RNorm(1, 2), ctx)

CallCompose ==
    /\ Quiet
    /\ \E args \in ArgLists, ctx \in Contexts :
        CallDraw("draw_compose", Unwrap(args), <<>>, RNorm(1, 2), ctx)

CallSequence ==
    /\ Quiet
    /\ \E x_vals \in SequenceBoundaries, x \in Times, ctx \in Contexts :
        /\ SequenceArgsOk(x_vals, SequenceDraws(Len(x_vals)))
        /\ CallDraw("draw_sequence", SequenceDraws(Len(x_vals)), x_vals, x, ctx)

\* the effect of one statement on the context and the log; an exception ends
\* the draw procedure
Step(e, next_pc) ==
    /\ g' = e.g
    /\ calls' = e.calls
    /\ dpc' = IF e.exc # "none" THEN "raised" ELSE next_pc
    /\ UNCHANGED <<dcall, interp_vars, frame_vars, render_vars>>

\* apply_overlay: for proc in draw_procs : g.save()
OverlaySave ==
    /\ dcall.op = "draw_overlay" /\ dpc = "loop" /\ di < Len(dcall.draw_procs)
    /\ Step(save(Env(g, calls), "apply_overlay"), "call")
    /\ UNCHANGED di

\* apply_overlay: proc(g, x)
OverlayProc ==
    /\ dcall.op = "draw_overlay" /\ dpc = "call"
    /\ Step(CallProc(Env(g, calls), PyGet(dcall.draw_procs, di), di, dcall.x,
                     "apply_overlay"), "restore")
    /\ UNCHANGED di

\* OverlayRestore with the restore left out
OverlayRestoreSkipped ==
    /\ dcall.op = "draw_overlay" /\ dpc = "restore"
    /\ Step(Env(g, calls), "loop")
    /\ di' = di + 1

\* apply_overlay: g.restore(), and on to the next proc
OverlayRestore ==
    /\ dcall.op = "draw_overlay" /\ dpc = "restore"
    /\ Step(restore(Env(g, calls), "apply_overlay"), "loop")
    /\ di' = di + 1

\* ComposeProc with the procedure wrapped in save / restore, as apply_overlay does
ComposeProcIsolated ==
    /\ dcall.op = "draw_compose" /\ dpc = "loop" /\ di < Len(dcall.draw_procs)
    /\ LET e == CallProc(save(Env(g, calls), "apply_compose"),
                         PyGet(dcall.draw_procs, di), di, dcall.x, "apply_compose")
       IN  Step(IF e.exc # "none" THEN e ELSE restore(e, "apply_compose"), "loop")
    /\ di' = di + 1

\* apply_compose: for proc in draw_procs : proc(g, x)
ComposeProc ==
    /\ dcall.op = "draw_compose" /\ dpc = "loop" /\ di < Len(dcall.draw_procs)
    /\ Step(CallProc(Env(g, calls), PyGet(dcall.draw_procs, di), di, dcall.x,
                     "apply_compose"), "loop")
    /\ di' = di + 1

\* apply_overlay, apply_compose: the for loop is exhausted
LoopReturn ==
    /\ dcall.op \in {"draw_overlay", "draw_compose"}
    /\ dpc = "loop" /\ di = Len(dcall.draw_procs)
    /\ dpc' = "returned"
    /\ UNCHANGED <<g, calls, dcall, di, interp_vars, frame_vars, render_vars>>

\* select_from_sequence: the selection loop
SequenceSelect ==
    /\ dcall.op = "draw_sequence" /\ dpc = "loop"
    /\ di' = SelectLoop(dcall.x_vals, dcall.x, Len(dcall.x_vals))
    /\ dpc' = "call"
    /\ UNCHANGED <<g, calls, dcall, interp_vars, frame_vars, render_vars>>

\* select_from_sequence: draw(g, x), and return
SequenceDraw ==
    /\ dcall.op = "draw_sequence" /\ dpc = "call"
    /\ Step(CallProc(Env(g, calls), PyGet(dcall.draw_procs, di), di, dcall.x,
                     "select_from_sequence"), "returned")
    /\ UNCHANGED di

\* a context as qahirah.Context.create makes it
NewContext == [ctm |-> 1, stack |-> <<>>]

\* the caller has the draw procedure's result (its return, or its exception)
DrawDone ==
    /\ dpc \in {"returned", "raised"}
    /\ g' = NewContext
    /\ calls' = <<>>
    /\ dcall' = DIdle
    /\ dpc' = "idle"
    /\ di' = 0
    /\ UNCHANGED <<interp_vars, frame_vars, render_vars>>

InitDraw ==
    /\ g = NewContext
    /\ calls = <<>>
    /\ dcall = DIdle
    /\ dpc = "idle"
    /\ di = 0

NextDraw ==
    \/ CallOverlay \/ OverlaySave \/ OverlayProc \/ OverlayRestore
    \/ CallCompose \/ ComposeProc \/ LoopReturn
    \/ CallSequence \/ SequenceSelect \/ SequenceDraw \/ DrawDone

(***************************************************************************)
(* The combinators as constructors: a call of the combinator either raises *)
(* or returns a function object (a closure over its arguments), which is   *)
(* evaluated in a later call.                                              *)
(***************************************************************************)
\* calling the object f with argument x: a constant returns the object it wraps
Call(f, x) == IF f.kind = "constant" THEN f.p[1] ELSE Number(Apply(f, x))

\* the outcome of a constructor call: the function returned, or the exception
Made(op, x_vals, args, fn) ==
    [op |-> op, x_vals |-> x_vals, args |-> args, exc |-> "none", fn |-> fn]
Failed(op, x_vals, args, exc) ==
    [op |-> op, x_vals |-> x_vals, args |-> args, exc |-> exc, fn |-> NoFunction]

\* a nested function: its code, and the variables of the enclosing call it reads
Closure(code, x_vals, args) == [code |-> code, x_vals |-> x_vals, args |-> args]

\* piecewise_interpolator(x_vals, interps)
make_piecewise(x_vals, interps) ==
    IF ~PiecewiseArgsOk(x_vals, interps)
    THEN Failed("piecewise_interpolator", x_vals, interps, "AssertionError")
    ELSE Made("piecewise_interpolator", x_vals, interps,
              Closure("interpolate", x_vals, EnsureAll(interps)))

\* step_interpolator(x_vals, y_vals)
make_step(x_vals, y_vals) ==
    IF ~StepArgsOk(x_vals, y_vals)
    THEN Failed("step_interpolator", x_vals, y_vals, "AssertionError")
    ELSE Made("step_interpolator", x_vals, y_vals,
              Closure("step_interpolate", x_vals, y_vals))

\* draw_sequence(x_vals, draws)
make_sequence(x_vals, draws) ==
    IF ~SequenceArgsOk(x_vals, draws)
    THEN Failed("draw_sequence", x_vals, draws, "AssertionError")
    ELSE Made("draw_sequence", x_vals, draws,
              Closure("select_from_sequence", x_vals, draws))

\* a Python container: its type and its elements in iteration order
Container(type, items) == [type |-> type, items |-> items]

\* tuple_interpolator: seq not in (list, tuple)
TupleTypeOk(seq) == seq \in {"list", "tuple"}

\* tuple_interpolator(t)
make_tuple(t) ==
    LET seq == t.type
    IN  IF ~TupleTypeOk(seq)
        THEN Failed("tuple_interpolator", <<>>, t, "TypeError")
        ELSE Made("tuple_interpolator", <<>>, t,
                  Closure("eval_tuple", <<>>, Container(seq, EnsureAll(t.items))))

\* select_from_sequence(g, x) on a new context: the segment selected and the
\* calls made
select_from_sequence(x_vals, draws, x) ==
    LET i == SelectLoop(x_vals, x, Len(x_vals))
        e == CallProc(Env([ctm |-> 1, stack |-> <<>>], <<>>), PyGet(draws, i), i, x,
                      "select_from_sequence")
    IN  [type |-> "NoneType", i |-> i, calls |-> e.calls]

\* eval_tuple(x): seq(i(x) for i in t)
eval_tuple(t, x) == Container(t.type, [k \in 1..Len(t.items) |-> Call(t.items[k], x)])

\* a Python str
Str(s) == [type |-> "str", tag |-> "absent", kind |-> "value", p |-> <<s>>]

\* one element of draw_settings: the 2-tuple (method, interp)
Setting(method, interp) == Container("tuple", <<Str(method), interp>>)

\* the interpolator tuple_interpolator(t) returns, as an object
tuple_interpolator(t) ==
    interpolator(Function("eval_tuple", <<Container(t.type, EnsureAll(t.items))>>))

\* make_draw: a single tuple argument that is not itself a (method, interp)
\* pair stands for the settings it holds
UnwrapSettings(draw_settings) ==
    IF /\ Len(draw_settings) = 1
       /\ draw_settings[1].type = "tuple"
       /\ \/ Len(draw_settings[1].items) # 2
          \/ /\ Len(draw_settings[1].items) = 2
             /\ draw_settings[1].items[1].type # "str"
    THEN draw_settings[1].items
    ELSE draw_settings

\* make_draw(*draw_settings)
make_draw(draw_settings) ==
    Made("make_draw", <<>>, draw_settings,
         Closure("apply_settings", <<>>, UnwrapSettings(draw_settings)))

\* apply_settings with the elements of a tuple passed on as they are
SettingArgsUnevaluated(interp, x) ==
    IF is_interpolator(interp) THEN eval_tuple(interp.p[1], x).items ELSE interp.items

\* apply_settings: args, from interp(x) or from the elements of the tuple
SettingArgs(interp, x) ==
    IF is_interpolator(interp)
    THEN eval_tuple(interp.p[1], x).items
    ELSE [k \in 1..Len(interp.items) |-> Call(ensure_interpolator(interp.items[k]), x)]

\* the method names the model's context has (getattr raises on any other)
ContextMethods == {"translate", "scale", "set_line_width"}

\* apply_settings: the for loop from its k-th setting, on a context that logs
\* the calls made on it
RECURSIVE ApplySettingsLoop(_, _, _, _)
ApplySettingsLoop(e, draw_settings, x, k) ==
    IF k > Len(draw_settings) \/ e.exc # "none" THEN e
    ELSE LET method == draw_settings[k].items[1].p[1]
             interp == draw_settings[k].items[2]
             args == SettingArgs(interp, x)
         IN  ApplySettingsLoop(IF method \in ContextMethods
                               THEN Log(e, method, "apply_settings", args)
                               ELSE raise(e, "AttributeError"),
                               draw_settings, x, k + 1)

\* apply_settings(g, x) on a new context: the calls made on g
apply_settings(draw_settings, x) ==
    LET e == ApplySettingsLoop(Env([ctm |-> 1, stack |-> <<>>], <<>>), draw_settings, x, 1)
    IN  [exc |-> e.exc, x |-> x, val |-> [type |-> "NoneType", i |-> 0, calls |-> e.calls]]

\* a qahirah.Matrix, here its linear part <<xx, xy, yx, yy>>
Matrix(xx, xy, yx, yy) ==
    [type |-> "Matrix", tag |-> "absent", kind |-> "value", p |-> <<xx, xy, yx, yy>>]

\* qah.Matrix.identity()
identity == Matrix(R(1), R(0), R(0), R(1))

\* a * b on matrices: the matrix product, a on the left
MatMul(a, b) ==
    Matrix(RAdd(RMul(a.p[1], b.p[1]), RMul(a.p[2], b.p[3])),
           RAdd(RMul(a.p[1], b.p[2]), RMul(a.p[2], b.p[4])),
           RAdd(RMul(a.p[3], b.p[1]), RMul(a.p[4], b.p[3])),
           RAdd(RMul(a.p[3], b.p[2]), RMul(a.p[4], b.p[4])))

\* interpolators returning matrices, as callers write them: a shear along x
\* by the time, a shear along y by the time, a scaling of x by the time
MatrixFunction(kind) == interpolator(Function(kind, <<>>))

\* f(x) for an interpolator f of matrices
MatrixAt(f, x) ==
    CASE f.kind = "constant" -> f.p[1]
      [] f.kind = "shear_x" -> Matrix(R(1), x, R(0), R(1))
      [] f.kind = "shear_y" -> Matrix(R(1), R(0), x, R(1))
      [] f.kind = "scale_x" -> Matrix(x, R(0), R(0), R(1))

\* matrix_interpolator: a single tuple argument stands for the interpolators
\* it holds, and every one goes through ensure_interpolator
make_matrix(args) ==
    Made("matrix_interpolator", <<>>, args,
         Closure("concat_matrices", <<>>,
                 EnsureAll(IF Len(args) = 1 /\ args[1].type = "tuple"
                           THEN args[1].items ELSE args)))

\* concat_matrices with each matrix multiplied in on the left of the result
RECURSIVE ConcatLoopPrepending(_, _, _, _, _)
ConcatLoopPrepending(args, x, k, result, evals) ==
    IF k > Len(args) THEN [type |-> "Matrix", result |-> result, evals |-> evals]
    ELSE ConcatLoopPrepending(args, x, k + 1, MatMul(MatrixAt(args[k], x), result),
                              Append(evals, <<k, x>>))

\* concat_matrices: the for loop from its k-th interpolator; evals lists the
\* calls f(x) made, as pairs <<position of f in args, x>>
RECURSIVE ConcatLoop(_, _, _, _, _)
ConcatLoop(args, x, k, result, evals) ==
    IF k > Len(args) THEN [type |-> "Matrix", result |-> result, evals |-> evals]
    ELSE ConcatLoop(args, x, k + 1, MatMul(result, MatrixAt(args[k], x)),
                    Append(evals, <<k, x>>))

\* concat_matrices(x)
concat_matrices(args, x) == ConcatLoop(args, x, 1, identity, <<>>)

\* fn(x), or fn(g, x) for a draw procedure
CallMade(fn, x) ==
    CASE fn.code = "interpolate" ->
            LET r == interpolate(fn.x_vals, fn.args, x)
            IN  IF r.exc # "none" THEN [exc |-> r.exc, x |-> x, val |-> Number(R(0))]
                ELSE [exc |-> "none", x |-> x, val |-> Number(r.y)]
      [] fn.code = "step_interpolate" ->
            LET r == step_interpolate(fn.x_vals, fn.args, x)
            IN  IF r.exc # "none" THEN [exc |-> r.exc, x |-> x, val |-> Number(R(0))]
                ELSE [exc |-> "none", x |-> x, val |-> Number(r.val)]
      [] fn.code = "select_from_sequence" ->
            [exc |-> "none", x |-> x, val |-> select_from_sequence(fn.x_vals, fn.args, x)]
      [] fn.code = "eval_tuple" ->
            [exc |-> "none", x |-> x, val |-> eval_tuple(fn.args, x)]
      [] fn.code = "apply_settings" -> apply_settings(fn.args, x)
      [] fn.code = "concat_matrices" ->
            [exc |-> "none", x |-> x, val |-> concat_matrices(fn.args, x)]

\* boundary sequences as a caller may pass them: any order, any length
AnyBoundarySeqs == UNION {SeqsOf({R(v) : v \in 0..MaxX}, n) : n \in 0..(MaxLen - 1)}

\* the interpolators of a piecewise_interpolator of n segments
SegmentInterps(n) ==
    [k \in 1..n |->
        CASE k % 3 = 1 -> linear_interpolator(R(0), R(1), R(0), R(3))
          [] k % 3 = 2 -> Number(R(2))
          [] OTHER -> square_interpolator(R(1), R(2))]

\* the draw procedures of a draw_sequence: n of them
DrawsOf(n) == IF n = 0 THEN <<>> ELSE SequenceDraws(n - 1)

\* the types of the argument of tuple_interpolator, and its elements
ContainerTypes == {"list", "tuple", "namedtuple", "set", "dict", "str", "generator"}
TupleItems == {Number(R(2)), linear_interpolator(R(0), R(1), R(0), R(3)),
               Function("linear", <<R(0), R(1), R(4), R(1)>>)}
Containers ==
    {Container(type, items) : type \in ContainerTypes,
                              items \in UNION {SeqsOf(TupleItems, n) : n \in 0..2}}

\* a Python bool
Bool(b) == [type |-> "bool", tag |-> "absent", kind |-> "value", p |-> <<b>>]

\* a bound method and an instance of a class with __call__, given an
\* is_interpolator attribute or not
Method(tag) == [Function("linear", <<R(0), R(1), R(0), R(3)>>) EXCEPT
                    !.type = "method", !.tag = tag]
Instance(tag) == [Function("linear", <<R(0), R(1), R(0), R(3)>>) EXCEPT
                    !.type = "instance", !.tag = tag]

\* what a caller passes where a constant or an interpolator is accepted
Values ==
    { Number(R(2)),
      Function("linear", <<R(0), R(1), R(0), R(3)>>),
      [Function("linear", <<R(0), R(1), R(0), R(3)>>) EXCEPT !.tag = "false"],
      linear_interpolator(R(0), R(1), R(0), R(3)),
      square_interpolator(R(1), R(2)),
      constant_interpolator(Number(R(2))),
      constant_interpolator(linear_interpolator(R(0), R(1), R(0), R(3))),
      Method("true"), Method("absent"), Instance("true"), Instance("false"),
      Instance("absent") }

\* is_interpolator(f)
CallIsInterpolator ==
    /\ Quiet
    /\ \E f \in Values :
          /\ made' = Made("is_interpolator", <<>>, f, NoFunction)
          /\ mret' = [exc |-> "none", x |-> R(0), val |-> Bool(is_interpolator(f))]
    /\ UNCHANGED <<icall, iret, draw_vars, frame_vars, render_vars>>

\* ensure_interpolator(f)
MakeEnsure ==
    /\ Quiet
    /\ \E f \in Values : made' = Made("ensure_interpolator", <<>>, f, ensure_interpolator(f))
    /\ UNCHANGED <<icall, iret, mret, draw_vars, frame_vars, render_vars>>

MakePiecewise ==
    /\ Quiet
    /\ \E x_vals \in AnyBoundarySeqs, n \in 0..(MaxLen - 1) :
          made' = make_piecewise(x_vals, SegmentInterps(n))
    /\ UNCHANGED <<icall, iret, mret, draw_vars, frame_vars, render_vars>>

MakeStep ==
    /\ Quiet
    /\ \E x_vals \in AnyBoundarySeqs, n \in 0..(MaxLen - 1) :
          made' = make_step(x_vals, Markers(n))
    /\ UNCHANGED <<icall, iret, mret, draw_vars, frame_vars, render_vars>>

MakeSequence ==
    /\ Quiet
    /\ \E x_vals \in AnyBoundarySeqs, n \in 0..MaxLen :
          made' = make_sequence(x_vals, DrawsOf(n))
    /\ UNCHANGED <<icall, iret, mret, draw_vars, frame_vars, render_vars>>

MakeTuple ==
    /\ Quiet
    /\ \E t \in Containers : made' = make_tuple(t)
    /\ UNCHANGED <<icall, iret, mret, draw_vars, frame_vars, render_vars>>

\* x_vals after the first loop: [0, d1, d1 + d2, ...], the last being total_x
RECURSIVE RunningTotals(_, _, _)
RunningTotals(num, durs, k) ==
    IF k = 0 THEN <<R(0)>>
    ELSE LET x_vals == RunningTotals(num, durs, k - 1)
         IN  Append(x_vals, Add(num, x_vals[k], durs[k]))

\* the second loop: x_vals[i] = x_vals[i] * duration / total_x + offset
Rescale(num, x_vals, duration, offset) ==
    LET total_x == x_vals[Len(x_vals)]
    IN  IF total_x = R(0) THEN Raise("ZeroDivisionError")
        ELSE Return([i \in 1..Len(x_vals) |->
                        Add(num, Div(num, Mul(num, x_vals[i], duration), total_x), offset)])

\* the arguments of a sequential combinator; items are pairs <<dur, interp>>
\* or <<dur, draw>>
SequentialArgs(num, items, before, after, duration, offset) ==
    [num |-> num, items |-> items, before |-> before, after |-> after,
     duration |-> duration, offset |-> offset]

\* piecewise_sequential_interpolator(items, duration, offset)
piecewise_sequential_interpolator(num, items, duration, offset) ==
    LET args == SequentialArgs(num, items, None, None, duration, offset)
        durs == [k \in 1..Len(items) |-> items[k][1]]
        interps == [k \in 1..Len(items) |-> items[k][2]]
        x_vals == Rescale(num, RunningTotals(num, durs, Len(durs)), duration, offset)
    IN  IF x_vals.exc # "none"
        THEN Failed("piecewise_sequential_interpolator", <<>>, args, x_vals.exc)
        ELSE [make_piecewise(x_vals.val, interps) EXCEPT
                !.op = "piecewise_sequential_interpolator", !.args = args]

\* draw_sequential(items, before, after, duration, offset)
draw_sequential(num, items, before, after, duration, offset) ==
    LET args == SequentialArgs(num, items, before, after, duration, offset)
        durs == [k \in 1..Len(items) |-> items[k][1]]
        draws == <<IF before = None THEN null_draw ELSE before>>
                 \o [k \in 1..Len(items) |-> items[k][2]]
                 \o <<IF after = None THEN null_draw ELSE after>>
        x_vals == Rescale(num, RunningTotals(num, durs, Len(durs)), duration, offset)
    IN  IF x_vals.exc # "none" THEN Failed("draw_sequential", <<>>, args, x_vals.exc)
        ELSE [make_sequence(x_vals.val, draws) EXCEPT !.op = "draw_sequential", !.args = args]

\* relative durations, total durations and start times
RelDurations == {R(1), R(2), R(3)}
Durations == {R(1), R(3), RNorm(5, 4), RNorm(7, 4)}
Offsets == {R(0), RNorm(1, 2)}

MakePiecewiseSequential ==
    /\ Quiet
    /\ \E m \in 0..(MaxLen - 1) :
        \E durs \in SeqsOf(RelDurations, m), duration \in Durations, offset \in Offsets :
          made' = piecewise_sequential_interpolator("Fraction",
                      [k \in 1..m |-> <<durs[k], SegmentInterps(m)[k]>>], duration, offset)
    /\ UNCHANGED <<icall, iret, mret, draw_vars, frame_vars, render_vars>>

MakeDrawSequential ==
    /\ Quiet
    /\ \E m \in 0..2, num \in NumberTypes, before \in {None, Proc("translate")},
          after \in {None, Proc("scale")} :
        \E durs \in SeqsOf(OfType(num, RelDurations), m),
           duration \in OfType(num, Durations), offset \in OfType(num, Offsets) :
          made' = draw_sequential(num,
                      [k \in 1..m |-> <<durs[k], Proc(IF k % 2 = 1 THEN "scoped" ELSE "translate")>>],
                      before, after, duration, offset)
    /\ UNCHANGED <<icall, iret, mret, draw_vars, frame_vars, render_vars>>

\* the arguments of matrix_interpolator: interpolators of matrices, and
\* constant matrices
MatrixArgs ==
    {MatrixFunction(k) : k \in {"shear_x", "shear_y", "scale_x"}}
    \cup {Matrix(R(0), R(-1), R(1), R(0)), Matrix(R(2), R(0), R(1), R(1))}

\* matrix_interpolator(f1, ..., fk), or matrix_interpolator((f1, ..., fk))
MakeMatrix ==
    /\ Quiet
    /\ \E k \in 0..MaxProcs, wrapped \in BOOLEAN :
        \E args \in SeqsOf(MatrixArgs, k) :
          made' = make_matrix(IF wrapped THEN <<Container("tuple", args)>> ELSE args)
    /\ UNCHANGED <<icall, iret, mret, draw_vars, frame_vars, render_vars>>

\* the second elements of settings: a tuple of constants and interpolators,
\* or an interpolator returning the whole tuple
SettingInterps ==
    LET items == {Number(R(2)), linear_interpolator(R(0), R(1), R(0), R(3)),
                  Function("linear", <<R(0), R(1), R(4), R(1)>>)}
        tuples == {Container("tuple", t) : t \in UNION {SeqsOf(items, n) : n \in 0..2}}
    IN  tuples \cup {tuple_interpolator(t) :
                        t \in {c \in tuples : Len(c.items) = 2 /\ c.items[1] = Number(R(2))}}

SettingMethods == ContextMethods \cup {"no_such_method"}

\* make_draw(s1, ..., sk), or make_draw((s1, ..., sk))
MakeDraw ==
    /\ Quiet
    /\ \E k \in 0..2, wrapped \in BOOLEAN :
        \E methods \in SeqsOf(SettingMethods, k), interps \in SeqsOf(SettingInterps, k) :
          LET settings == [j \in 1..k |-> Setting(methods[j], interps[j])]
          IN  made' = make_draw(IF wrapped THEN <<Container("tuple", settings)>>
                                ELSE settings)
    /\ UNCHANGED <<icall, iret, mret, draw_vars, frame_vars, render_vars>>

\* the function a constructor returned is called
Evaluate ==
    /\ made.op # "none" /\ made.exc = "none" /\ mret = NoEval
    /\ \E x \in Times :
          mret' = IF made.op = "ensure_interpolator"
                  THEN [exc |-> "none", x |-> x, val |-> Call(made.fn, x)]
                  ELSE CallMade(made.fn, x)
    /\ UNCHANGED <<icall, iret, made, draw_vars, frame_vars, render_vars>>

\* the object and its result are dropped
MadeDone ==
    /\ made.op # "none"
    /\ made' = NoObject
    /\ mret' = NoEval
    /\ UNCHANGED <<icall, iret, draw_vars, frame_vars, render_vars>>

NextMade ==
    \/ CallIsInterpolator \/ MakeEnsure
    \/ MakePiecewise \/ MakeStep \/ MakeSequence \/ MakeTuple \/ MakeDraw
    \/ MakePiecewiseSequential \/ MakeDrawSequential \/ MakeMatrix
    \/ Evaluate \/ MadeDone

(***************************************************************************)
(* FrameTimeCalc                                                           *)
(***************************************************************************)
\* math.floor, math.ceil
floor(a) == a[1] \div a[2]
ceil(a) == -((-a[1]) \div a[2])

\* FrameTimeCalc.__init__; num is the type of the numbers start_time, end_time
\* and frame_rate are (an attribute of the values in Python, kept with the
\* object here)
FrameTimeCalc(start_time, end_time, frame_rate, start_frame_nr) ==
    [start_time |-> start_time, end_time |-> end_time, frame_rate |-> frame_rate,
     start_frame_nr |-> start_frame_nr, num |-> "Fraction"]

\* the same object constructed from floats
FloatTimes(self) == [self EXCEPT !.num = "float"]

\* time_to_frame with the start frame number left out
time_to_frame_unbased(self, t, round_up) ==
    LET v == Mul(self.num, Sub(self.num, t, self.start_time), self.frame_rate)
    IN  IF round_up THEN ceil(v) ELSE floor(v)

\* FrameTimeCalc.time_to_frame
time_to_frame(self, t, round_up) ==
    LET v == Add(self.num,
                 Mul(self.num, Sub(self.num, t, self.start_time), self.frame_rate),
                 R(self.start_frame_nr))
    IN  IF round_up THEN ceil(v) ELSE floor(v)

\* frame_to_time with the frame rate multiplied in, not divided out
frame_to_time_times(self, n) ==
    Add(self.num, Mul(self.num, RSub(R(n), R(self.start_frame_nr)), self.frame_rate),
        self.start_time)

\* FrameTimeCalc.frame_to_time
frame_to_time(self, n) ==
    Add(self.num, Div(self.num, RSub(R(n), R(self.start_frame_nr)), self.frame_rate),
        self.start_time)

\* each_frame(final_partial): a generator object that has not run yet
NewGenerator(final_partial) ==
    [final_partial |-> final_partial, state |-> "created", frame_nr |-> 0,
     to_frame_nr |-> 0, out |-> <<>>]

\* the first next() of the generator: the body runs up to the for loop
GenStart(self, gen) ==
    [gen EXCEPT !.state = "running",
                !.frame_nr = self.start_frame_nr,
                !.to_frame_nr = time_to_frame(self, self.end_time, gen.final_partial)]

\* each_frame's loop with the end frame itself yielded too
GenStepInclusive(self, gen) ==
    IF gen.frame_nr <= gen.to_frame_nr
    THEN [gen EXCEPT !.out = Append(@, <<frame_to_time(self, gen.frame_nr), gen.frame_nr>>),
                     !.frame_nr = @ + 1]
    ELSE [gen EXCEPT !.state = "exhausted"]

\* for frame_nr in range(from_frame_nr, to_frame_nr) : yield (time, frame_nr);
\* frame_nr is the number range() gives next
GenStep(self, gen) ==
    IF gen.frame_nr < gen.to_frame_nr
    THEN [gen EXCEPT !.out = Append(@, <<frame_to_time(self, gen.frame_nr), gen.frame_nr>>),
                     !.frame_nr = @ + 1]
    ELSE [gen EXCEPT !.state = "exhausted"]

\* next(gen): the generator runs to its next yield, or to its end
GenNext(self, gen) ==
    IF gen.state = "created" THEN GenStep(self, GenStart(self, gen)) ELSE GenStep(self, gen)

(***************************************************************************)
(* Inputs of the FrameTimeCalc calls.                                      *)
(***************************************************************************)
StartTimes == {R(0), RNorm(1, 2)}
EndTimes == {RNorm(k, 4) : k \in (-1)..(4 * MaxT)}
FrameRates == {R(1), R(2), RNorm(3, 2), RNorm(7, 2)}
StartFrameNrs == {-1, 0, 2}

\* the documented example: one time unit at 10 frames per unit, from frame 0
ExampleCalc == FrameTimeCalc(R(0), R(1), R(10), 0)

FractionCalcs ==
    {FrameTimeCalc(s, e, r, n) :
        s \in StartTimes, e \in EndTimes, r \in FrameRates, n \in StartFrameNrs}
    \cup {ExampleCalc}

\* the calculators whose times and rate are floats
FloatCalcs ==
    {FloatTimes(self) :
        self \in {c \in FractionCalcs :
                    {c.start_time, c.end_time, c.frame_rate} \subseteq
                        OfType("float", {c.start_time, c.end_time, c.frame_rate})}}

FrameCalcs == FractionCalcs \cup FloatCalcs

QueryTimes == {RNorm(k, 4) : k \in (-4)..(4 * MaxT + 2)} \cup {RNorm(1, 3), RNorm(7, 10)}
QueryFrames == (-3)..(2 * MaxT + 3)

GenIds == {1, 2}

NoFrameTimes == FrameTimeCalc(R(0), R(0), R(1), 0)
FIdle == [op |-> "idle", t |-> R(0), n |-> 0, round_up |-> FALSE]

(***************************************************************************)
(* The FrameTimeCalc calls.                                                *)
(***************************************************************************)
\* frame_times = FrameTimeCalc(...)
NewFrameTimeCalc ==
    /\ Quiet
    /\ \E self \in FrameCalcs : frame_times' = self
    /\ fcall' = [FIdle EXCEPT !.op = "ready"]
    /\ UNCHANGED <<fret, gens, interp_vars, draw_vars, render_vars>>

\* frame_times.time_to_frame(t, round_up)
CallTimeToFrame ==
    /\ fcall.op = "ready"
    /\ \E t \in OfType(frame_times.num, QueryTimes), round_up \in BOOLEAN :
          /\ fcall' = [op |-> "time_to_frame", t |-> t, n |-> 0, round_up |-> round_up]
          /\ fret' = R(time_to_frame(frame_times, t, round_up))
    /\ UNCHANGED <<frame_times, gens, interp_vars, draw_vars, render_vars>>

\* frame_times.frame_to_time(n)
CallFrameToTime ==
    /\ fcall.op = "ready"
    /\ \E n \in QueryFrames :
          /\ fcall' = [op |-> "frame_to_time", t |-> R(0), n |-> n, round_up |-> FALSE]
          /\ fret' = frame_to_time(frame_times, n)
    /\ UNCHANGED <<frame_times, gens, interp_vars, draw_vars, render_vars>>

\* frame_times.each_frame(final_partial): a new generator
CallEachFrame ==
    /\ fcall.op \in {"ready", "each_frame"}
    /\ \E id \in GenIds, final_partial \in BOOLEAN :
          /\ gens[id].state = "none"
          /\ \A other \in GenIds : other < id => gens[other].state # "none"
          /\ gens' = [gens EXCEPT ![id] = NewGenerator(final_partial)]
    /\ fcall' = [FIdle EXCEPT !.op = "each_frame"]
    /\ UNCHANGED <<frame_times, fret, interp_vars, draw_vars, render_vars>>

\* next() on one of the generators
EachFrameNext ==
    /\ fcall.op = "each_frame"
    /\ \E id \in GenIds :
          /\ gens[id].state \in {"created", "running"}
          /\ gens' = [gens EXCEPT ![id] = GenNext(frame_times, gens[id])]
    /\ UNCHANGED <<frame_times, fcall, fret, interp_vars, draw_vars, render_vars>>

NoGenerators == [id \in GenIds |-> [NewGenerator(FALSE) EXCEPT !.state = "none"]]

\* the FrameTimeCalc object and its generators are dropped
FrameDone ==
    /\ fcall.op \notin {"idle", "ready"}
    /\ frame_times' = NoFrameTimes
    /\ fcall' = FIdle
    /\ fret' = R(0)
    /\ gens' = NoGenerators
    /\ UNCHANGED <<interp_vars, draw_vars, render_vars>>

InitFrame ==
    /\ frame_times = NoFrameTimes
    /\ fcall = FIdle
    /\ fret = R(0)
    /\ gens = NoGenerators

NextFrame ==
    \/ NewFrameTimeCalc \/ CallTimeToFrame \/ CallFrameToTime
    \/ CallEachFrame \/ EachFrameNext \/ FrameDone

(***************************************************************************)
(* render_anim                                                             *)
(***************************************************************************)
DigitChars == <<"0", "1", "2", "3", "4", "5", "6", "7", "8", "9">>

\* the decimal digits of n >= 0
RECURSIVE Digits(_)
Digits(n) == IF n < 10 THEN <<DigitChars[n + 1]>>
             ELSE Digits(n \div 10) \o <<DigitChars[(n % 10) + 1]>>

\* s padded on the left with "0" to w characters
RECURSIVE ZeroPad(_, _)
ZeroPad(s, w) == IF Len(s) >= w THEN s ELSE ZeroPad(<<"0">> \o s, w)

\* "{:03d}".format(n)
Format03d(n) ==
    IF n < 0 THEN <<"-">> \o ZeroPad(Digits(-n), 2) ELSE ZeroPad(Digits(n), 3)

\* "{:04d}".format(n): the sign, then the digits zero-padded so that the whole
\* is at least 4 characters
Format04d(n) ==
    IF n < 0 THEN <<"-">> \o ZeroPad(Digits(-n), 3) ELSE ZeroPad(Digits(n), 4)

\* "{:04d}.png".format(frame_nr), a name in out_dir
FileName(frame_nr) == Format04d(frame_nr) \o <<".", "p", "n", "g">>

\* os.getenv("ANIM_PROGRESS", "") != "" and sys.stderr.isatty()
ShowProgress(anim_progress, isatty) == anim_progress # "" /\ isatty

\* the throttle of the progress report, in seconds
ProgressInterval == 5

\* the draw procedures given as draw_frame: one that draws, one that does
\* nothing, and one that raises from time 1 on
DrawFrames == {Proc("translate"), Proc("null_draw"), Proc("raise_late")}

\* overall_presetup: None, or a procedure setting up the transform
Presetups == {None, Proc("translate")}

RIdle == [start_time |-> R(0), end_time |-> R(0), frame_rate |-> R(1), start_frame_nr |-> 0,
          draw_frame |-> None, overall_presetup |-> None,
          anim_progress |-> "", isatty |-> FALSE]

NoLocals == [from_frame_nr |-> 0, to_frame_nr |-> 0, show_progress |-> FALSE,
             last_time |-> 0, gen |-> NewGenerator(FALSE), t |-> R(0), frame_nr |-> 0]

\* render_anim is called; pix and g are created
CallRender ==
    /\ Quiet
    /\ \E self \in FrameCalcs, draw_frame \in DrawFrames, overall_presetup \in Presetups,
          anim_progress \in {"", "1"}, isatty \in BOOLEAN :
          rcall' = [start_time |-> self.start_time, end_time |-> self.end_time,
                    frame_rate |-> self.frame_rate, start_frame_nr |-> self.start_frame_nr,
                    draw_frame |-> draw_frame, overall_presetup |-> overall_presetup,
                    anim_progress |-> anim_progress, isatty |-> isatty]
    /\ g' = NewContext
    /\ calls' = <<>>
    /\ rpc' = "presetup"
    /\ UNCHANGED <<rloc, files, stderr, now, rret, dcall, dpc, di, interp_vars, frame_vars>>

\* RenderStep with the exception replaced by one of render_anim's own
RenderStepWrapped(e, next_pc) ==
    /\ g' = e.g
    /\ calls' = e.calls
    /\ rpc' = IF e.exc # "none" THEN "raised" ELSE next_pc
    /\ rret' = IF e.exc # "none" THEN Raise("RenderError") ELSE rret
    /\ UNCHANGED <<rcall, dcall, dpc, di, interp_vars>>

\* one statement of render_anim acting on the context; an exception ends the call
RenderStep(e, next_pc) ==
    /\ g' = e.g
    /\ calls' = e.calls
    /\ rpc' = IF e.exc # "none" THEN "raised" ELSE next_pc
    /\ rret' = IF e.exc # "none" THEN Raise(e.exc) ELSE rret
    /\ UNCHANGED <<rcall, dcall, dpc, di, interp_vars>>

\* if overall_presetup != None : overall_presetup(g)
RenderPresetup ==
    /\ rpc = "presetup"
    /\ RenderStep(IF rcall.overall_presetup # None
                  THEN CallProc(Env(g, calls), rcall.overall_presetup, 0, R(0),
                                "overall_presetup")
                  ELSE Env(g, calls), "init")
    /\ UNCHANGED <<rloc, files, stderr, now, frame_vars>>

\* frame_times, final_partial, from_frame_nr, to_frame_nr, show_progress,
\* last_time, and the call of each_frame
RenderInit ==
    /\ rpc = "init"
    /\ LET self == FrameTimeCalc(rcall.start_time, rcall.end_time, rcall.frame_rate,
                                 rcall.start_frame_nr)
           final_partial == FALSE
           show_progress == ShowProgress(rcall.anim_progress, rcall.isatty)
       IN  /\ frame_times' = self
           /\ rloc' = [from_frame_nr |-> rcall.start_frame_nr,
                       to_frame_nr |-> time_to_frame(self, rcall.end_time, final_partial),
                       show_progress |-> show_progress,
                       last_time |-> IF show_progress THEN now ELSE 0,
                       gen |-> NewGenerator(final_partial),
                       t |-> R(0), frame_nr |-> 0]
    /\ rpc' = "for"
    /\ UNCHANGED <<rcall, files, stderr, now, rret, g, calls, dcall, dpc, di,
                   fcall, fret, gens, interp_vars>>

\* for t, frame_nr in frame_times.each_frame(...), and the return after the loop
RenderFor ==
    /\ rpc = "for"
    /\ LET gen == GenNext(frame_times, rloc.gen)
       IN  IF gen.state = "exhausted"
           THEN /\ rpc' = "returned"
                /\ rret' = Return(<<rloc.from_frame_nr, rloc.to_frame_nr>>)
                /\ rloc' = [rloc EXCEPT !.gen = gen]
           ELSE /\ rpc' = "save"
                /\ rloc' = [rloc EXCEPT !.gen = gen,
                                        !.t = gen.out[Len(gen.out)][1],
                                        !.frame_nr = gen.out[Len(gen.out)][2]]
                /\ UNCHANGED rret
    /\ UNCHANGED <<rcall, files, stderr, now, g, calls, dcall, dpc, di,
                   interp_vars, frame_vars>>

\* g.save()
RenderSave ==
    /\ rpc = "save"
    /\ RenderStep(save(Env(g, calls), "render_anim"), "draw")
    /\ UNCHANGED <<rloc, files, stderr, now, frame_vars>>

\* draw_frame(g, t); drawing takes wall-clock time
RenderDraw ==
    /\ rpc = "draw"
    /\ RenderStep(CallProc(Env(g, calls), rcall.draw_frame, rloc.frame_nr, rloc.t,
                           "render_anim"), "restore")
    /\ \E took \in {0, ProgressInterval} :
          now' = IF rloc.show_progress THEN now + took ELSE now
    /\ UNCHANGED <<rloc, files, stderr, frame_vars>>

\* g.restore()
RenderRestore ==
    /\ rpc = "restore"
    /\ RenderStep(restore(Env(g, calls), "render_anim"), "flush")
    /\ UNCHANGED <<rloc, files, stderr, now, frame_vars>>

\* render_anim with pix.flush() left out
RenderFlushSkipped ==
    /\ rpc = "flush"
    /\ RenderStep(Env(g, calls), "write")
    /\ UNCHANGED <<rloc, files, stderr, now, frame_vars>>

\* pix.flush()
RenderFlush ==
    /\ rpc = "flush"
    /\ RenderStep(Log(Env(g, calls), "flush", "render_anim", <<>>), "write")
    /\ UNCHANGED <<rloc, files, stderr, now, frame_vars>>

\* pix.write_to_png(os.path.join(out_dir, "{:04d}.png".format(frame_nr))); the
\* write succeeds or fails
RenderWrite ==
    /\ rpc = "write"
    /\ \E written \in BOOLEAN :
          LET e == Log(Env(g, calls), "write_to_png", "render_anim", FileName(rloc.frame_nr))
          IN  /\ RenderStep(IF written THEN e ELSE raise(e, "OSError"), "progress")
              /\ files' = IF written THEN Append(files, FileName(rloc.frame_nr)) ELSE files
    /\ UNCHANGED <<rloc, stderr, now, frame_vars>>

\* RenderProgress with the surface flushed again when a report is made
RenderProgressFlushing ==
    /\ rpc = "progress"
    /\ IF rloc.show_progress /\ now - rloc.last_time >= ProgressInterval
       THEN /\ rloc' = [rloc EXCEPT !.last_time = now]
            /\ stderr' = Append(stderr,
                    [done |-> rloc.frame_nr - rloc.from_frame_nr + rcall.start_frame_nr,
                     total |-> rloc.to_frame_nr - rloc.from_frame_nr])
            /\ calls' = Log(Env(g, calls), "flush", "render_anim", <<>>).calls
       ELSE UNCHANGED <<rloc, stderr, calls>>
    /\ rpc' = "for"
    /\ UNCHANGED <<rcall, files, now, rret, g, dcall, dpc, di,
                   interp_vars, frame_vars>>

\* if show_progress and time.time() - last_time >= 5.0 : report
RenderProgress ==
    /\ rpc = "progress"
    /\ IF rloc.show_progress /\ now - rloc.last_time >= ProgressInterval
       THEN /\ rloc' = [rloc EXCEPT !.last_time = now]
            /\ stderr' = Append(stderr,
                    [done |-> rloc.frame_nr - rloc.from_frame_nr + rcall.start_frame_nr,
                     total |-> rloc.to_frame_nr - rloc.from_frame_nr])
       ELSE UNCHANGED <<rloc, stderr>>
    /\ rpc' = "for"
    /\ UNCHANGED <<rcall, files, now, rret, g, calls, dcall, dpc, di,
                   interp_vars, frame_vars>>

\* the caller has render_anim's result; pix and g are dropped
RenderDone ==
    /\ rpc \in {"returned", "raised"}
    /\ rcall' = RIdle
    /\ rpc' = "idle"
    /\ rloc' = NoLocals
    /\ files' = <<>>
    /\ stderr' = <<>>
    /\ now' = 0
    /\ rret' = NoResult
    /\ g' = NewContext
    /\ calls' = <<>>
    /\ frame_times' = NoFrameTimes
    /\ UNCHANGED <<dcall, dpc, di, fcall, fret, gens, interp_vars>>

InitRender ==
    /\ rcall = RIdle
    /\ rpc = "idle"
    /\ rloc = NoLocals
    /\ files = <<>>
    /\ stderr = <<>>
    /\ now = 0
    /\ rret = NoResult

NextRender ==
    \/ CallRender \/ RenderPresetup \/ RenderInit \/ RenderFor \/ RenderSave
    \/ RenderDraw \/ RenderRestore \/ RenderFlush \/ RenderWrite \/ RenderProgress
    \/ RenderDone

(***************************************************************************)
(* draw_curve, draw_curve_discrete                                         *)
(***************************************************************************)
\* round(a) for a >= 0: the nearest integer, a tie to the even one
round(a) == RoundHalfEven(a)

\* the subcurve functions callers pass: the default lambda n : 0, one that
\* splits the curve in runs of two steps, one that makes every step a subcurve
subcurve(kind, n) ==
    CASE kind = "default" -> 0
      [] kind = "pairs" -> n \div 2
      [] kind = "each" -> n

\* if end < start : end += 1
WrappedEnd(start, end) == IF RLt(end, start) THEN RAdd(end, R(1)) ELSE end

\* draw_curve's for loop from step i: g.line_to(f((i % nr_steps) / nr_steps)),
\* f being the identity
RECURSIVE CurveLoop(_, _, _, _)
CurveLoop(e, nr_steps, i, end_step) ==
    IF i >= end_step THEN e
    ELSE CurveLoop(Log(e, "line_to", "draw_curve", <<RNorm(i % nr_steps, nr_steps)>>),
                   nr_steps, i + 1, end_step)

\* draw_curve(g, f, closed, nr_steps, start, end)
draw_curve(e, closed, nr_steps, start, end) ==
    LET start_step == round(RMul(start, R(nr_steps)))
        end_step == round(RMul(WrappedEnd(start, end), R(nr_steps)))
        drawn == CurveLoop(Log(e, "new_path", "draw_curve", <<>>), nr_steps, start_step,
                           end_step)
        closing == IF closed /\ start_step % nr_steps = end_step % nr_steps
                   THEN Log(drawn, "close_path", "draw_curve", <<>>)
                   ELSE drawn
    IN  Log(closing, "stroke", "draw_curve", <<>>)

\* no subcurve yet: last_subcurve = None
NoSubcurve == -1

\* draw_curve_discrete's for loop from step i; its result is the environment
\* and last_subcurve at the end of the loop
RECURSIVE DiscreteLoop(_, _, _, _, _, _, _)
DiscreteLoop(e, closed, nr_steps, kind, i, n_end, last_subcurve) ==
    IF i >= n_end THEN [e |-> e, last_subcurve |-> last_subcurve]
    ELSE LET this_subcurve == subcurve(kind, i % nr_steps)
             e1 == IF this_subcurve # last_subcurve /\ last_subcurve # NoSubcurve
                   THEN Log(IF closed THEN Log(e, "close_path", "draw_curve_discrete", <<>>)
                            ELSE e,
                            "new_sub_path", "draw_curve_discrete", <<>>)
                   ELSE e
         IN  DiscreteLoop(Log(e1, "line_to", "draw_curve_discrete", <<R(i % nr_steps)>>),
                          closed, nr_steps, kind, i + 1, n_end, this_subcurve)

\* draw_curve_discrete(g, f, closed, nr_steps, start, end, subcurve)
draw_curve_discrete(e, closed, nr_steps, start, end, kind) ==
    LET end1 == WrappedEnd(start, end)
        n_start == round(RMul(start, R(nr_steps)))
        n_end == round(RMul(end1, R(nr_steps)))
        drawn == DiscreteLoop(Log(e, "new_path", "draw_curve_discrete", <<>>), closed,
                              nr_steps, kind, n_start, n_end, NoSubcurve)
        closing == IF /\ drawn.last_subcurve # NoSubcurve
                      /\ closed
                      /\ R(n_start % nr_steps) = Mod("Fraction", end1, R(nr_steps))
                   THEN Log(drawn.e, "close_path", "draw_curve_discrete", <<>>)
                   ELSE drawn.e
    IN  Log(closing, "stroke", "draw_curve_discrete", <<>>)

\* the fractions of the curve given as start and end
CurveFractions == {R(0), RNorm(1, 4), RNorm(1, 2), R(1)}

\* a call of one of the curve procedures, which has returned
CallCurve(op, e, closed, nr_steps, start, end, kind) ==
    /\ dcall' = [op |-> op, draw_procs |-> <<>>, x_vals |-> <<>>, x |-> R(0),
                 entry |-> NewContext, closed |-> closed, nr_steps |-> nr_steps,
                 start |-> start, end |-> end, subcurve |-> kind]
    /\ g' = e.g
    /\ calls' = e.calls
    /\ di' = 0
    /\ dpc' = "returned"
    /\ UNCHANGED <<interp_vars, frame_vars, render_vars>>

CallDrawCurve ==
    /\ Quiet
    /\ \E closed \in BOOLEAN, nr_steps \in 1..MaxLen, start \in CurveFractions,
          end \in CurveFractions :
        CallCurve("draw_curve", draw_curve(Env(NewContext, <<>>), closed, nr_steps, start, end),
                  closed, nr_steps, start, end, "default")

CallDrawCurveDiscrete ==
    /\ Quiet
    /\ \E closed \in BOOLEAN, nr_steps \in 1..MaxLen, start \in CurveFractions,
          end \in CurveFractions, kind \in {"default", "pairs", "each"} :
        CallCurve("draw_curve_discrete",
                  draw_curve_discrete(Env(NewContext, <<>>), closed, nr_steps, start, end, kind),
                  closed, nr_steps, start, end, kind)

NextCurve == CallDrawCurve \/ CallDrawCurveDiscrete \/ DrawDone

(***************************************************************************)
(* Slitscan (anim_slitscan.py): the pattern is a bitmap of steps columns;  *)
(* render brings it up to date one column at a time, then paints it.       *)
(***************************************************************************)
\* renders made with one Slitscan object
MaxRenders == 2
\* iterations of the catch-up loop followed in one render
MaxIterations == 2 * MaxLen + 2

\* self.last_draw_time = None
NoTime == <<>>

\* round((1.0 - at_time / self.duration) * self.steps - 1) % self.steps
time_to_offset(self, at_time) ==
    round(RSub(RMul(RSub(R(1), RDiv(at_time, self.duration)), R(self.steps)), R(1)))
        % self.steps

\* Slitscan(draw, extent, steps, duration, background)
Slitscan(steps, duration) ==
    [op |-> "Slitscan", draw_procs |-> <<>>, x_vals |-> <<>>, x |-> R(0),
     entry |-> NewContext, steps |-> steps, duration |-> duration,
     last_draw_time |-> NoTime, renders |-> 0, at_time |-> R(0), from_time |-> NoTime,
     base_offset |-> 0, this_offset |-> 0, time_steps |-> 0]

\* this_offset -= 1, without the wrap to the last column
StepDownUnwrapped(this_offset, steps) == this_offset - 1

\* this_offset -= 1; if this_offset < 0 : this_offset += self.steps
StepDown(this_offset, steps) ==
    IF this_offset - 1 < 0 THEN this_offset - 1 + steps ELSE this_offset - 1

SlitSteps == 1..MaxLen
SlitDurations == {R(1), RNorm(3, 2)}
AtTimes ==
    {R(-5), RNorm(-1, 4), R(0), RNorm(1, 8), RNorm(1, 4), RNorm(1, 2), R(1), RNorm(7, 4),
     R(100)}

NewSlitscan ==
    /\ Quiet
    /\ \E steps \in SlitSteps, duration \in SlitDurations : dcall' = Slitscan(steps, duration)
    /\ dpc' = "constructed"
    /\ UNCHANGED <<g, calls, di, interp_vars, frame_vars, render_vars>>

\* render(g, at_time, ...) up to the while loop: base_offset, and when
\* at_time is not the time drawn last, the column to start from
CallSlitscanRender ==
    /\ dcall.op = "Slitscan"
    /\ dpc \in {"constructed", "returned"}
    /\ dcall.renders < MaxRenders
    /\ \E at_time \in AtTimes :
          LET base_offset == time_to_offset(dcall, at_time)
              called == [dcall EXCEPT !.renders = @ + 1, !.at_time = at_time,
                                      !.from_time = dcall.last_draw_time,
                                      !.base_offset = base_offset, !.time_steps = 0]
              last_draw_time ==
                  IF dcall.last_draw_time = NoTime
                  THEN RDiv(RSub(R(0), dcall.duration), R(dcall.steps))
                  ELSE dcall.last_draw_time
          IN  IF dcall.last_draw_time # at_time
              THEN /\ dcall' = [called EXCEPT
                                  !.last_draw_time = last_draw_time,
                                  !.this_offset = time_to_offset(dcall, last_draw_time)]
                   /\ dpc' = "while"
              ELSE /\ dcall' = called
                   /\ dpc' = "paint"
    /\ g' = NewContext
    /\ calls' = <<>>
    /\ UNCHANGED <<di, interp_vars, frame_vars, render_vars>>

\* one iteration of while this_offset != base_offset: the column of
\* this_time is drawn by self.draw
SlitscanColumn ==
    /\ dpc = "while"
    /\ dcall.this_offset # dcall.base_offset
    /\ dcall.time_steps < MaxIterations
    /\ \E time_steps \in {dcall.time_steps + 1} :
          \E elapsed \in {RDiv(RMul(R(time_steps), dcall.duration), R(dcall.steps))} :
             \E this_time \in {RAdd(dcall.last_draw_time, elapsed)} :
                /\ dcall' = [dcall EXCEPT !.time_steps = time_steps,
                                          !.this_offset = StepDown(@, dcall.steps)]
                /\ calls' = Log(Env(g, calls), "draw", "Slitscan.render",
                                <<this_time>>).calls
    /\ UNCHANGED <<g, dpc, di, interp_vars, frame_vars, render_vars>>

\* the loop ends: self.last_draw_time = at_time
SlitscanCaughtUp ==
    /\ dpc = "while"
    /\ dcall.this_offset = dcall.base_offset
    /\ dcall' = [dcall EXCEPT !.last_draw_time = dcall.at_time]
    /\ dpc' = "paint"
    /\ UNCHANGED <<g, calls, di, interp_vars, frame_vars, render_vars>>

\* the rest of render: the pattern is flushed and painted into g in strips,
\* between g.save() and g.restore()
SlitscanPaint ==
    /\ dpc = "paint"
    /\ LET flushed == Log(Env(g, calls), "flush", "Slitscan.render", <<>>)
           painted == restore(Log(save(flushed, "Slitscan.render"), "fill", "Slitscan.render",
                                  <<>>), "Slitscan.render")
       IN  g' = painted.g /\ calls' = painted.calls
    /\ dpc' = "returned"
    /\ UNCHANGED <<dcall, di, interp_vars, frame_vars, render_vars>>

NextSlitscan ==
    \/ NewSlitscan \/ CallSlitscanRender \/ SlitscanColumn \/ SlitscanCaughtUp
    \/ SlitscanPaint \/ DrawDone

Init == InitInterp /\ InitDraw /\ InitFrame /\ InitRender

SpecCurve == Init /\ [][NextCurve]_vars

\* render runs to its end once called: the loop and the painting are plain
\* sequential code
SpecSlitscan ==
    /\ Init
    /\ [][NextSlitscan]_vars
    /\ WF_vars(SlitscanColumn \/ SlitscanCaughtUp \/ SlitscanPaint)

SpecInterp == Init /\ [][NextInterp]_vars

SpecNumeric == Init /\ [][NextNumeric]_vars

SpecMade == Init /\ [][NextMade]_vars

SpecDraw == Init /\ [][NextDraw]_vars

SpecFrame == Init /\ [][NextFrame]_vars

SpecRender == Init /\ [][NextRender]_vars

\* every use of a drawing context: the draw combinators and the render loop
SpecContext == Init /\ [][NextDraw \/ NextRender]_vars

\* the whole module
Next ==
    \/ NextInterp \/ NextNumeric \/ NextMade \/ NextDraw \/ NextCurve \/ NextSlitscan
    \/ NextFrame \/ NextRender

Spec == Init /\ [][Next]_vars

(***************************************************************************)
(* Claims about the interpolator combinators, under SpecInterp.            *)
(***************************************************************************)
\* the Python indices of the interior boundaries of x_vals
Interior(x_vals) == 1..(Len(x_vals) - 2)

\* a time strictly between boundary k and boundary k + 1
JustAbove(x_vals, k) == RAdd(PyGet(x_vals, k), RNorm(1, 2))

GreatestBelow(x_vals, x) ==
    LET S == {i \in 0..(Len(x_vals) - 2) : RLe(PyGet(x_vals, i), x)}
    IN  IF S = {} THEN 0 ELSE CHOOSE i \in S : \A j \in S : j <= i

\* C2: step_interpolator(B, V) returns at every time t the value V[i] of the
\* greatest i in 0..n-2 with B[i] <= t, and V[0] for a t below every boundary.
C2_StepClamped ==
    icall.op = "step" =>
        iret = Return(PyGet(icall.args, GreatestBelow(icall.x_vals, icall.x)))

\* C2, the part the code satisfies: at a time not below the first boundary
\* the value of the greatest boundary not above it is returned.
C2_StepInRange ==
    (icall.op = "step" /\ RGe(icall.x, PyGet(icall.x_vals, 0))) =>
        iret = Return(PyGet(icall.args, GreatestBelow(icall.x_vals, icall.x)))

\* C2: what the code does below the first boundary.
C2_StepBelowRaises ==
    (icall.op = "step" /\ RLt(icall.x, PyGet(icall.x_vals, 0))) =>
        iret = Raise("IndexError")

(***************************************************************************)
(* Claims about the draw-procedure combinators, under SpecDraw.            *)
(***************************************************************************)
\* the events of the log made by `by` with operation in ops, in order
RECURSIVE EventsOf(_, _, _)
EventsOf(log, by, ops) ==
    IF log = <<>> THEN <<>>
    ELSE LET rest == EventsOf(Tail(log), by, ops)
         IN  IF Head(log).by = by /\ Head(log).op \in ops THEN <<Head(log)>> \o rest
             ELSE rest

\* a draw procedure that returns normally with its own save / restore balanced
WellBehaved(proc) == proc.kind \in {"null_draw", "translate", "scale", "scoped"}

\* a draw procedure whose own save / restore calls are balanced
Balanced(proc) == proc.kind # "save_only"

AllProcs(P(_)) == \A k \in 1..Len(dcall.draw_procs) : P(dcall.draw_procs[k])

\* what a draw procedure that returns leaves of the graphics state it starts in
Leaves(proc, ctx) ==
    CASE proc.kind = "translate" -> [ctx EXCEPT !.ctm = @ + 1]
      [] proc.kind = "scale" -> [ctx EXCEPT !.ctm = @ * 2]
      [] proc.kind = "save_only" -> [ctm |-> ctx.ctm + 1, stack |-> Append(ctx.stack, ctx.ctm)]
      [] OTHER -> ctx

\* the graphics state after the first n of the procedures ran one after the other
RECURSIVE Chained(_, _, _)
Chained(procs, n, ctx) ==
    IF n = 0 THEN ctx ELSE Leaves(procs[n], Chained(procs, n - 1, ctx))

DrawExited == dpc \in {"returned", "raised"}

\* C3, the part the code satisfies: on a normal return every save of
\* apply_overlay is matched by a restore.
C3_OverlayRestoresOnReturn ==
    (dcall.op = "draw_overlay" /\ dpc = "returned" /\ AllProcs(Balanced)) =>
        /\ Len(g.stack) = Len(dcall.entry.stack)
        /\ Len(EventsOf(calls, "apply_overlay", {"save"}))
             = Len(EventsOf(calls, "apply_overlay", {"restore"}))

\* C4: in draw_overlay(p1, ..., pk) over procedures that return normally and
\* are balanced, every p_j starts in the graphics state the overlay was entered
\* in (one save deeper), the procedures are called in order, and after the
\* overlay returned the graphics state is the state at entry.
C4_OverlayIsolates ==
    (dcall.op = "draw_overlay" /\ AllProcs(WellBehaved)) =>
        LET started == EventsOf(calls, "apply_overlay", {"call"})
        IN  /\ \A j \in 1..Len(started) :
                  /\ started[j].arg = <<j - 1, dcall.x>>
                  /\ started[j].ctm = dcall.entry.ctm
                  /\ started[j].depth = Len(dcall.entry.stack) + 1
            /\ dpc # "raised"
            /\ dpc = "returned" =>
                  /\ Len(started) = Len(dcall.draw_procs)
                  /\ g = dcall.entry

\* C4 witness: an overlay of two or more procedures has returned, its first
\* procedure changed the transform, and a later procedure was started.
C4_Witness ==
    /\ dcall.op = "draw_overlay" /\ dpc = "returned"
    /\ AllProcs(WellBehaved)
    /\ Len(dcall.draw_procs) >= 2
    /\ dcall.draw_procs[1].kind \in {"translate", "scale"}
    /\ dcall.draw_procs[2].kind \in {"translate", "scale"}
    /\ Len(EventsOf(calls, "proc", {"translate", "scale"})) >= 2
    /\ dcall.entry.stack # <<>>

\* C5: draw_compose(p1, ..., pk) calls the procedures in the given order, each
\* once, with the unchanged time, and itself issues no save or restore: p_{j+1}
\* starts in the graphics state p_j left, and after draw_compose returned the
\* graphics state is the one p_k left.
C5_ComposeChains ==
    dcall.op = "draw_compose" =>
        LET started == EventsOf(calls, "apply_compose", {"call"})
        IN  /\ EventsOf(calls, "apply_compose", {"save", "restore"}) = <<>>
            /\ Len(started) <= Len(dcall.draw_procs)
            /\ \A j \in 1..Len(started) :
                  LET before == Chained(dcall.draw_procs, j - 1, dcall.entry)
                  IN  /\ started[j].arg = <<j - 1, dcall.x>>
                      /\ started[j].ctm = before.ctm
                      /\ started[j].depth = Len(before.stack)
            /\ dpc = "returned" =>
                  /\ Len(started) = Len(dcall.draw_procs)
                  /\ g = Chained(dcall.draw_procs, Len(dcall.draw_procs), dcall.entry)

\* C5 witness: a composition has returned whose procedures changed the
\* transform one after the other, in an order that shows in the result.
C5_Witness ==
    /\ dcall.op = "draw_compose" /\ dpc = "returned"
    /\ Len(dcall.draw_procs) = 3
    /\ dcall.draw_procs[1].kind = "translate"
    /\ dcall.draw_procs[2].kind = "scale"
    /\ dcall.draw_procs[3].kind = "translate"
    /\ g.ctm = (dcall.entry.ctm + 1) * 2 + 1
    /\ g.ctm # dcall.entry.ctm * 2 + 2

\* the segment of time t among boundaries B: the number of boundaries at or
\* below t (B increasing), so 0 before B[0] and Len(B) from the last boundary on
SegmentOf(B, t) ==
    LET S == {i \in 1..Len(B) : RLe(PyGet(B, i - 1), t)}
    IN  IF S = {} THEN 0 ELSE CHOOSE i \in S : \A j \in S : j <= i

\* C6: draw_sequence(B, P) called at time t invokes exactly one procedure of
\* P, once, with the unchanged (g, t): P[0] if t < B[0], P[n] if t >= B[n-1],
\* otherwise P[i] for the greatest i with B[i-1] <= t; a time equal to a
\* boundary selects the upper segment.
C6_SequenceSelectsOne ==
    dcall.op = "draw_sequence" =>
        LET B == dcall.x_vals
            t == dcall.x
            n == Len(B)
            started == EventsOf(calls, "select_from_sequence", {"call"})
        IN  /\ Len(started) <= 1
            /\ dpc = "returned" =>
                  /\ Len(started) = 1
                  /\ Len(EventsOf(calls, "select_from_sequence", {"call", "save", "restore"})) = 1
                  /\ Head(calls) = started[1]
                  /\ started[1].arg = <<SegmentOf(B, t), t>>
                  /\ started[1].ctm = dcall.entry.ctm
                  /\ started[1].depth = Len(dcall.entry.stack)
                  /\ (n > 0 /\ RLt(t, PyGet(B, 0))) => started[1].arg[1] = 0
                  /\ (n > 0 /\ RGe(t, PyGet(B, n - 1))) => started[1].arg[1] = n
                  /\ \A k \in 0..(n - 1) : t = PyGet(B, k) => started[1].arg[1] = k + 1

\* C6 witness: a sequence over three boundaries was called at a time equal to
\* its middle boundary and has invoked a procedure.
C6_Witness ==
    /\ dcall.op = "draw_sequence" /\ dpc = "returned"
    /\ Len(dcall.x_vals) = 3
    /\ dcall.x = PyGet(dcall.x_vals, 1)
    /\ Len(calls) >= 1
    /\ calls[1].arg = <<2, dcall.x>>

(***************************************************************************)
(* Claims about FrameTimeCalc, under SpecFrame.                            *)
(***************************************************************************)
\* C8: with frame_rate > 0, an integer start_frame_nr and exact arithmetic,
\* time_to_frame(frame_to_time(n)) = n for every integer n in both rounding
\* modes; hence time_to_frame(frame_to_time(time_to_frame(t))) = time_to_frame(t).
C8_FrameRoundTrip ==
    frame_times.num = "Fraction" =>
    /\ fcall.op = "frame_to_time" =>
          \A round_up \in BOOLEAN : time_to_frame(frame_times, fret, round_up) = fcall.n
    /\ fcall.op = "time_to_frame" =>
          \A round_up \in BOOLEAN :
              time_to_frame(frame_times, frame_to_time(frame_times, fret[1]), round_up)
                = fret[1]

\* C8 witness: frame_to_time returned a time that is not a whole number, for a
\* calculator whose first frame is not frame 0 and whose rate is not 1.
C8_Witness ==
    /\ fcall.op = "frame_to_time"
    /\ fret[2] # 1
    /\ frame_times.start_frame_nr = 2
    /\ frame_times.frame_rate = RNorm(3, 2)
    /\ frame_times.start_time # R(0)
    /\ fcall.n < 0

\* t lies in frame n (floor mode), or in the frame that ends where n starts
\* (round_up)
VisibleAt(self, t, n, round_up) ==
    IF round_up
    THEN RLt(frame_to_time(self, n - 1), t) /\ RLe(t, frame_to_time(self, n))
    ELSE RLe(frame_to_time(self, n), t) /\ RLt(t, frame_to_time(self, n + 1))

\* C9: the floor-mode frame n = time_to_frame(t) is the frame visible at t:
\* frame_to_time(n) <= t < frame_to_time(n + 1); the round-up frame m satisfies
\* frame_to_time(m - 1) < t <= frame_to_time(m).
C9_FrameVisibleAt ==
    fcall.op = "time_to_frame" =>
        /\ fret[2] = 1
        /\ VisibleAt(frame_times, fcall.t, fret[1], fcall.round_up)

\* C9 in exact arithmetic: the bounds hold when the times and the rate are
\* Fractions.
C9_FrameVisibleInFractions ==
    (fcall.op = "time_to_frame" /\ frame_times.num = "Fraction") =>
        VisibleAt(frame_times, fcall.t, fret[1], fcall.round_up)

\* C9 in floats: the product (t - start_time) * frame_rate was rounded up
\* past a whole number, and the frame returned starts after t.
C9_FloatFrameStartsLate ==
    /\ fcall.op = "time_to_frame"
    /\ frame_times.num = "float"
    /\ ~fcall.round_up
    /\ RGt(frame_to_time(frame_times, fret[1]), fcall.t)

\* C9 in exact arithmetic, its case: a time strictly inside a frame was rounded
\* up, for a calculator whose first frame is not frame 0.
C9_Witness ==
    /\ fcall.op = "time_to_frame"
    /\ frame_times.num = "Fraction"
    /\ fcall.round_up
    /\ frame_times.start_frame_nr = -1
    /\ frame_times.frame_rate = RNorm(3, 2)
    /\ RLt(fcall.t, frame_to_time(frame_times, fret[1]))
    /\ RLt(fcall.t, frame_times.start_time)

\* the pairs (frame_to_time(n), n) for n = from .. to - 1, in increasing n
FramePairs(self, from, to) ==
    [k \in 1..(IF to > from THEN to - from ELSE 0) |->
        <<frame_to_time(self, from + k - 1), from + k - 1>>]

IsPrefix(s, t) == Len(s) <= Len(t) /\ \A k \in 1..Len(s) : s[k] = t[k]

Started(gen) == gen.state \in {"running", "exhausted"}

RenderExited == rpc \in {"returned", "raised"}

\* C3: on every exit path of apply_overlay and of render_anim, normal or
\* raising, each save issued is matched by a restore before the caller is
\* reached: the save-stack depth at exit is the depth at entry (for draw
\* procedures whose own save / restore calls are balanced).
C3_RestoredOnEveryExit ==
    /\ (dcall.op = "draw_overlay" /\ DrawExited /\ AllProcs(Balanced)) =>
          /\ Len(g.stack) = Len(dcall.entry.stack)
          /\ Len(EventsOf(calls, "apply_overlay", {"save"}))
               = Len(EventsOf(calls, "apply_overlay", {"restore"}))
    /\ RenderExited =>
          /\ Len(g.stack) = 0
          /\ Len(EventsOf(calls, "render_anim", {"save"}))
               = Len(EventsOf(calls, "render_anim", {"restore"}))

\* C3 for render_anim alone: the save of a frame is still on the stack when
\* draw_frame raises.
C3_RenderRestoresOnEveryExit ==
    RenderExited => Len(g.stack) = 0

\* the value of a string of decimal digits
DigitValue(c) == CHOOSE d \in 0..9 : DigitChars[d + 1] = c

RECURSIVE DecimalValue(_)
DecimalValue(s) ==
    IF s = <<>> THEN 0
    ELSE 10 * DecimalValue(SubSeq(s, 1, Len(s) - 1)) + DigitValue(s[Len(s)])

\* a file name is frame number n in at least 4 characters, zero-padded (after
\* the sign of a negative n), followed by ".png"
NamesFrame(name, n) ==
    LET base == SubSeq(name, 1, Len(name) - 4)
        digits == IF n < 0 THEN Tail(base) ELSE base
    IN  /\ SubSeq(name, Len(name) - 3, Len(name)) = <<".", "p", "n", "g">>
        /\ Len(base) >= 4
        /\ (Len(base) > 4 => digits[1] # "0")
        /\ (n < 0 => base[1] = "-")
        /\ \A k \in 1..Len(digits) : \E d \in 1..10 : DigitChars[d] = digits[k]
        /\ DecimalValue(digits) = (IF n < 0 THEN -n ELSE n)

\* the frame number E with E <= (end_time - start_time) * frame_rate +
\* start_frame_nr < E + 1
EndFrame(c) ==
    LET v == RAdd(RMul(RSub(c.end_time, c.start_time), c.frame_rate), R(c.start_frame_nr))
    IN  CHOOSE e \in (-100)..100 : RLe(R(e), v) /\ RLt(v, R(e + 1))

C7_ExampleWitness ==
    /\ rpc = "returned"
    /\ rcall.frame_rate = R(10)
    /\ Len(files) = 10

\* a render from a negative frame number has completed
C7_NegativeWitness ==
    /\ rpc = "returned"
    /\ rcall.start_frame_nr = -1
    /\ Len(files) >= 2
    /\ files[1] = <<"-", "0", "0", "1", ".", "p", "n", "g">>

(***************************************************************************)
(* Claims about the construction of combinators, under SpecMade.           *)
(***************************************************************************)
Constructed == made.op # "none" /\ made.exc = "none"
Rejected(exc) == made.exc = exc /\ made.fn = NoFunction /\ mret = NoEval

\* C11: a shape violation is reported by the constructor call itself, before
\* any evaluation: piecewise_interpolator and step_interpolator raise unless
\* the interpolators / values are one fewer than the boundaries, draw_sequence
\* raises unless the draw procedures are one more than the boundaries,
\* tuple_interpolator raises TypeError for an argument whose type is neither
\* list nor tuple; and tuple_interpolator of a list or tuple evaluates to a
\* container of the same type (and length).
C11_ShapeCheckedAtConstruction ==
    /\ (made.op \in {"piecewise_interpolator", "step_interpolator"}
          /\ Len(made.args) # Len(made.x_vals) - 1) => Rejected("AssertionError")
    /\ (made.op = "draw_sequence" /\ Len(made.args) # Len(made.x_vals) + 1)
          => Rejected("AssertionError")
    /\ made.op = "tuple_interpolator" =>
          IF made.args.type \notin {"list", "tuple"} THEN Rejected("TypeError")
          ELSE /\ Constructed
               /\ mret # NoEval =>
                    /\ mret.exc = "none"
                    /\ mret.val.type = made.args.type
                    /\ Len(mret.val.items) = Len(made.args.items)
    /\ mret # NoEval => Constructed

\* C11 witness: a piecewise_interpolator over three boundaries and one
\* interpolator was rejected by its constructor.
C11_Witness ==
    /\ made.op = "piecewise_interpolator"
    /\ Len(made.x_vals) = 3 /\ Len(made.args) = 1
    /\ Rejected("AssertionError")

\* a list given to tuple_interpolator came back as a list of the values
C11_TupleWitness ==
    /\ made.op = "tuple_interpolator" /\ made.args.type = "list"
    /\ Len(made.args.items) = 2
    /\ mret.exc = "none" /\ mret.val.type = "list"
    /\ mret.val.items[2] = Number(RNorm(3, 2))

StrictlyIncreasing(x_vals) ==
    \A k \in 1..(Len(x_vals) - 1) : RLt(x_vals[k], x_vals[k + 1])

\* C12: a piecewise_interpolator, step_interpolator or draw_sequence whose
\* boundaries are not strictly increasing is rejected by its constructor, and
\* so never evaluated.
C12_NonMonotonicRejected ==
    (made.op \in {"piecewise_interpolator", "step_interpolator", "draw_sequence"}
        /\ ~StrictlyIncreasing(made.x_vals))
    => (made.exc # "none" /\ mret = NoEval)

\* what the code does instead: boundaries out of order are accepted whenever
\* the lengths match, and the object returned evaluates
C12_NonMonotonicEvaluated ==
    /\ made.op = "piecewise_interpolator"
    /\ made.x_vals = <<R(1), R(0)>>
    /\ mret.exc = "none" /\ mret.x = RNorm(1, 2) /\ mret.val = Number(RNorm(3, 2))

\* the constructors check lengths and nothing else
C12_OnlyLengthsChecked ==
    /\ made.op \in {"piecewise_interpolator", "step_interpolator"} =>
          (made.exc = "none" <=>
              (Len(made.x_vals) >= 2 /\ Len(made.args) = Len(made.x_vals) - 1))
    /\ made.op = "draw_sequence" =>
          (made.exc = "none" <=> Len(made.args) = Len(made.x_vals) + 1)

(***************************************************************************)
(* Claims about failures and progress reports in render_anim, under        *)
(* SpecRender.                                                             *)
(***************************************************************************)
FrameDraws == EventsOf(calls, "render_anim", {"call"})
FrameWrites == EventsOf(calls, "render_anim", {"write_to_png"})

\* C13: when draw_frame or the file write fails at frame n, render_anim ends
\* there with that same exception: the frames drawn are start_frame_nr .. n,
\* once each, the files written are those of start_frame_nr .. n - 1, once
\* each and in order, the failed write was attempted once, and a failure never
\* leaves render_anim running.
C13_RenderFailsFast ==
    LET draws == FrameDraws
        writes == FrameWrites
        n == rloc.frame_nr
        from == rcall.start_frame_nr
    IN  /\ rpc = "raised" =>
              /\ rret.exc \in {"RuntimeError", "OSError"}
              /\ rret.exc = "RuntimeError" =>
                    /\ rcall.draw_frame = Proc("raise_late")
                    /\ RGe(draws[Len(draws)].arg[2], R(1))
                    /\ Len(writes) = n - from
              /\ rret.exc = "OSError" =>
                    /\ Len(writes) = n - from + 1
                    /\ writes[Len(writes)].arg = FileName(n)
              /\ from <= n /\ n < rloc.to_frame_nr
              /\ Len(draws) = n - from + 1
              /\ \A k \in 1..Len(draws) : draws[k].arg[1] = from + k - 1
              /\ Len(files) = n - from
              /\ \A k \in 1..Len(files) :
                    NamesFrame(files[k], from + k - 1) /\ writes[k].arg = files[k]
        /\ (rcall.draw_frame = Proc("raise_late")
              /\ \E k \in 1..Len(draws) : RGe(draws[k].arg[2], R(1)))
           => (rpc = "raised" /\ rret = Raise("RuntimeError"))
        /\ Len(writes) # Len(files) => (rpc = "raised" /\ rret = Raise("OSError"))

\* C13 witness: the write of the third frame of a render failed after two
\* files were written
C13_Witness ==
    /\ rpc = "raised" /\ rret = Raise("OSError")
    /\ Len(files) = 2 /\ Len(FrameWrites) = 3
    /\ rloc.frame_nr = rcall.start_frame_nr + 2

\* the draw procedure failed after at least one frame was written
C13_DrawWitness ==
    /\ rpc = "raised" /\ rret = Raise("RuntimeError")
    /\ Len(files) >= 1

\* one pass of the loop body from environment e, with progress reports left
\* out: the context calls of frame frame_nr, up to the failure if there is one
RefFrame(e, frame_nr, written) ==
    LET self == FrameTimeCalc(rcall.start_time, rcall.end_time, rcall.frame_rate,
                              rcall.start_frame_nr)
        e1 == CallProc(save(e, "render_anim"), rcall.draw_frame, frame_nr,
                       frame_to_time(self, frame_nr), "render_anim")
        e2 == Log(Log(restore(e1, "render_anim"), "flush", "render_anim", <<>>),
                  "write_to_png", "render_anim", FileName(frame_nr))
    IN  IF e1.exc # "none" THEN e1
        ELSE IF written THEN e2 ELSE raise(e2, "OSError")

\* the environment after overall_presetup and the first k frames
RECURSIVE RefEnv(_)
RefEnv(k) ==
    IF k = 0
    THEN IF rcall.overall_presetup # None
         THEN CallProc(Env(NewContext, <<>>), rcall.overall_presetup, 0, R(0),
                       "overall_presetup")
         ELSE Env(NewContext, <<>>)
    ELSE RefFrame(RefEnv(k - 1), rcall.start_frame_nr + k - 1, TRUE)

TaggedFunction(v) == v.type = "function" /\ v.tag = "true"

\* C15: ensure_interpolator(v) is v itself when v is a tagged interpolator,
\* and otherwise an interpolator returning v at every time; its result always
\* satisfies is_interpolator, and applying ensure_interpolator to the result
\* changes nothing, so ensure_interpolator(ensure_interpolator(v))(t) =
\* ensure_interpolator(v)(t).
C15_EnsureIdempotent ==
    made.op = "ensure_interpolator" =>
        LET v == made.args
            f == made.fn
        IN  /\ TaggedFunction(f)
            /\ is_interpolator(f)
            /\ TaggedFunction(v) => f = v
            /\ ~TaggedFunction(v) => (f # v /\ (mret # NoEval => mret.val = v))
            /\ ensure_interpolator(f) = f
            /\ mret # NoEval =>
                  /\ mret.exc = "none"
                  /\ Call(ensure_interpolator(f), mret.x) = mret.val

\* C15 witness: a tagged interpolator went through ensure_interpolator and was
\* evaluated at 1/2 to its own value there
C15_Witness ==
    /\ made.op = "ensure_interpolator"
    /\ made.args = linear_interpolator(R(0), R(1), R(0), R(3))
    /\ made.fn = made.args
    /\ mret.exc = "none" /\ mret.x = RNorm(1, 2) /\ mret.val = Number(RNorm(3, 2))

\* C16: is_interpolator(f) is true exactly for a plain function object with a
\* true is_interpolator attribute; a tagged bound method or callable instance
\* and an untagged function are not interpolators, and ensure_interpolator
\* makes of each a constant interpolator that returns the object itself
\* instead of calling it.
C16_IsInterpolatorPlainTaggedFunction ==
    /\ made.op = "is_interpolator" =>
          (mret.val = Bool(TRUE) <=> TaggedFunction(made.args))
    /\ (made.op = "ensure_interpolator" /\ ~TaggedFunction(made.args)) =>
          /\ made.fn = [type |-> "function", tag |-> "true", kind |-> "constant",
                        p |-> <<made.args>>]
          /\ mret # NoEval => mret.val = made.args

\* C16 witness: a bound method carrying a true tag was reported as no
\* interpolator
C16_Witness ==
    /\ made.op = "is_interpolator"
    /\ made.args = Method("true")
    /\ mret.val = Bool(FALSE)

\* such a bound method was wrapped by ensure_interpolator, and evaluating the
\* result at 1/2 returned the method itself
C16_WrappedWitness ==
    /\ made.op = "ensure_interpolator"
    /\ made.args = Method("true")
    /\ mret.exc = "none" /\ mret.x = RNorm(1, 2) /\ mret.val = Method("true")

(***************************************************************************)
(* Claims about interpolators as functions of numbers, under SpecNumeric.  *)
(***************************************************************************)
\* C18: for from_x # to_x, linear_interpolator(from_x, to_x, from_y, to_y)
\* returns exactly from_y at from_x and exactly to_y at to_x, and elsewhere the
\* affine value (x - from_x) / (to_x - from_x) * (to_y - from_y) + from_y.
C18_LinearExactAtEnds ==
    (icall.op = "linear" /\ icall.args[1] # icall.args[2]) =>
        /\ icall.x = icall.args[1] => iret = Return(icall.args[3])
        /\ icall.x = icall.args[2] => iret = Return(icall.args[4])
        /\ iret = Return(RAdd(RMul(RDiv(RSub(icall.x, icall.args[1]),
                                        RSub(icall.args[2], icall.args[1])),
                                   RSub(icall.args[4], icall.args[3])),
                              icall.args[3]))

\* C18, what the code satisfies: the value at from_x is from_y in either
\* arithmetic, and the whole claim holds where the arithmetic is exact
C18_LinearExactAtStart ==
    (icall.op = "linear" /\ icall.args[1] # icall.args[2] /\ icall.x = icall.args[1])
        => iret = Return(icall.args[3])

C18_LinearExactInFractions ==
    (icall.op = "linear" /\ icall.args[1] # icall.args[2] /\ icall.num = "Fraction") =>
        /\ icall.x = icall.args[1] => iret = Return(icall.args[3])
        /\ icall.x = icall.args[2] => iret = Return(icall.args[4])
        /\ iret = Return(RAdd(RMul(RDiv(RSub(icall.x, icall.args[1]),
                                        RSub(icall.args[2], icall.args[1])),
                                   RSub(icall.args[4], icall.args[3])),
                              icall.args[3]))

\* C18, what the code does with floats: to_y - from_y is rounded, and adding
\* from_y back does not give to_y
C18_FloatEndRounded ==
    /\ icall.op = "linear" /\ icall.num = "float"
    /\ icall.args = <<R(0), R(1), R(7), RNorm(1, 2)>>
    /\ icall.x = R(1)
    /\ iret = Return(R(1))

\* the time t wrapped into [a, b): t - offset less the greatest multiple of
\* b - a not above it, plus a
Wrapped(a, b, offset, t) ==
    LET period == RSub(b, a)
        u == RSub(t, offset)
        n == CHOOSE n \in (-20)..20 :
                RLe(RMul(R(n), period), u) /\ RLt(u, RMul(R(n + 1), period))
    IN  RAdd(RSub(u, RMul(R(n), period)), a)

\* the whole periods a time is shifted by
Shifts == (-2)..2

\* C17: periodic_interpolator(a, b, interp, offset) with b > a passes to
\* interp, at every time t, the value (t - offset) mod (b - a) + a, a value in
\* [a, b); and its value at t is its value at t + k * (b - a) for every
\* integer k.
C17_PeriodicWrapsIntoDomain ==
    (icall.op = "periodic" /\ RLt(icall.args[1], icall.args[2])) =>
        LET num == icall.num
            a == icall.args[1]
            b == icall.args[2]
            interp == icall.args[3]
            offset == icall.args[4]
            passed == PeriodicArg(num, a, b, offset, icall.x)
        IN  /\ passed = Wrapped(a, b, offset, icall.x)
            /\ RLe(a, passed) /\ RLt(passed, b)
            /\ iret = Return(Apply(interp, passed))
            /\ \A k \in Shifts :
                  LET shifted == RAdd(icall.x, RMul(R(k), RSub(b, a)))
                  IN  shifted \in OfType(num, {shifted}) =>
                         periodic_interpolator(num, a, b, interp, offset, shifted) = iret

\* C17, what the code satisfies: the claim where the arithmetic is exact
C17_PeriodicInFractions ==
    (icall.op = "periodic" /\ icall.num = "Fraction"
        /\ RLt(icall.args[1], icall.args[2])) =>
        LET a == icall.args[1]
            b == icall.args[2]
            interp == icall.args[3]
            offset == icall.args[4]
            passed == PeriodicArg("Fraction", a, b, offset, icall.x)
        IN  /\ passed = Wrapped(a, b, offset, icall.x)
            /\ RLe(a, passed) /\ RLt(passed, b)
            /\ iret = Return(Apply(interp, passed))
            /\ \A k \in Shifts :
                  periodic_interpolator("Fraction", a, b, interp, offset,
                                        RAdd(icall.x, RMul(R(k), RSub(b, a)))) = iret

\* C17, what the code does with floats: at a time just below offset the
\* remainder is rounded up to the period, interp is passed b itself, and the
\* value differs from the value one period later
C17_FloatWrapsToEnd ==
    /\ icall.op = "periodic" /\ icall.num = "float"
    /\ icall.args = <<R(0), R(1), linear_interpolator(R(0), R(1), R(0), R(1)), R(0)>>
    /\ icall.x = RNorm(-1, 16)
    /\ PeriodicArg("float", R(0), R(1), R(0), icall.x) = R(1)
    /\ iret = Return(R(1))

\* the segment of x_vals a time within its range lies in: the least Python
\* index i with x <= x_vals[i + 1]
SegmentAt(x_vals, x) ==
    CHOOSE i \in 0..(Len(x_vals) - 2) :
        /\ RLe(x, PyGet(x_vals, i + 1))
        /\ \A j \in 0..(i - 1) : RGt(x, PyGet(x_vals, j + 1))

\* C19: piecewise_linear_interpolator(X, Y), X strictly increasing and
\* len(X) = len(Y) >= 2, returns at every x in [X[i], X[i+1]] the value
\* interpolated linearly between Y[i] and Y[i+1], and so Y[i] at X[i].
C19_PiecewiseLinearInterpolates ==
    (icall.op = "piecewise_linear"
        /\ RLe(PyGet(icall.x_vals, 0), icall.x) /\ RLe(icall.x, PyGet(icall.x_vals, -1))) =>
        LET X == icall.x_vals
            Y == icall.args
            i == SegmentAt(X, icall.x)
        IN  /\ iret = Return(RAdd(PyGet(Y, i),
                                  RMul(RDiv(RSub(icall.x, PyGet(X, i)),
                                            RSub(PyGet(X, i + 1), PyGet(X, i))),
                                       RSub(PyGet(Y, i + 1), PyGet(Y, i)))))
            /\ \A k \in 0..(Len(X) - 1) : icall.x = PyGet(X, k) => iret = Return(PyGet(Y, k))

\* C19, what the code does: every call with arguments of matching lengths
\* ends in the TypeError of x_vals - 1
C19_AlwaysTypeError ==
    icall.op = "piecewise_linear" => iret = Raise("TypeError")

\* a call over three boundaries, at the second of them, has ended so
C19_TypeErrorReached ==
    /\ icall.op = "piecewise_linear"
    /\ Len(icall.x_vals) = 3 /\ icall.x = PyGet(icall.x_vals, 1)
    /\ iret = Raise("TypeError")

\* ease_inout_interpolator(xs, ys) at x, as a number (calls that raise apart)
EaseAt(xs, ys, x) ==
    ease_inout_interpolator(xs[1], xs[2], xs[3], xs[4], ys[1], ys[2], x).val

\* the polynomial of degree 2 through the values at three times p1, p2, p3 of
\* one piece: its first and second divided differences
Slope2(xs, ys, p1, p2) == RDiv(RSub(EaseAt(xs, ys, p2), EaseAt(xs, ys, p1)), RSub(p2, p1))
Curve3(xs, ys, p1, p2, p3) ==
    RDiv(RSub(Slope2(xs, ys, p2, p3), Slope2(xs, ys, p1, p2)), RSub(p3, p1))

\* the value and the slope at x of the piece that holds p1, p2, p3
PieceValue(xs, ys, p1, p2, p3, x) ==
    RAdd(EaseAt(xs, ys, p1),
         RAdd(RMul(RSub(x, p1), Slope2(xs, ys, p1, p2)),
              RMul(RMul(RSub(x, p1), RSub(x, p2)), Curve3(xs, ys, p1, p2, p3))))
PieceSlope(xs, ys, p1, p2, p3, x) ==
    RAdd(Slope2(xs, ys, p1, p2),
         RMul(RSub(RAdd(x, x), RAdd(p1, p2)), Curve3(xs, ys, p1, p2, p3)))

\* three times strictly between a and b
Between(a, b, k) == RAdd(a, RMul(RNorm(k, 4), RSub(b, a)))

\* the value and slope at the join x1 of the first quadratic piece, at the
\* join x2 of the second, and at either of the linear piece
EaseInValue(xs, ys) ==
    PieceValue(xs, ys, Between(xs[1], xs[2], 1), Between(xs[1], xs[2], 2),
               Between(xs[1], xs[2], 3), xs[2])
EaseInSlope(xs, ys) ==
    PieceSlope(xs, ys, Between(xs[1], xs[2], 1), Between(xs[1], xs[2], 2),
               Between(xs[1], xs[2], 3), xs[2])
EaseOutValue(xs, ys) ==
    PieceValue(xs, ys, Between(xs[3], xs[4], 1), Between(xs[3], xs[4], 2),
               Between(xs[3], xs[4], 3), xs[3])
EaseOutSlope(xs, ys) ==
    PieceSlope(xs, ys, Between(xs[3], xs[4], 1), Between(xs[3], xs[4], 2),
               Between(xs[3], xs[4], 3), xs[3])
LinearPieceSlope(xs, ys) == Slope2(xs, ys, xs[2], xs[3])

\* x0 < x1 < x2 < x3 and from_y # to_y
EaseProper(xs, ys) ==
    RLt(xs[1], xs[2]) /\ RLt(xs[2], xs[3]) /\ RLt(xs[3], xs[4]) /\ ys[1] # ys[2]

\* C20: for x0 < x1 < x2 < x3 and from_y # to_y, ease_inout_interpolator is
\* smooth at both joins: at x1 and at x2 the quadratic piece and the linear
\* piece have the same value and the same slope, the slope of the quadratic
\* piece there being 2 * (y1 - from_y) / (x1 - x0), respectively
\* 2 * (to_y - y2) / (x3 - x2).
C20_EaseSmoothAtJoins ==
    (icall.op = "ease_inout" /\ EaseProper(icall.x_vals, icall.args)) =>
        LET xs == icall.x_vals
            ys == icall.args
            v == EaseLocals(xs[1], xs[2], xs[3], xs[4], ys[1], ys[2]).val
        IN  /\ iret.exc = "none"
            /\ icall.x = xs[2] =>
                  /\ iret.val = EaseInValue(xs, ys)
                  /\ EaseInSlope(xs, ys)
                        = RDiv(RMul(R(2), RSub(v.y1, ys[1])), RSub(xs[2], xs[1]))
                  /\ EaseInSlope(xs, ys) = LinearPieceSlope(xs, ys)
            /\ icall.x = xs[3] =>
                  /\ iret.val = EaseOutValue(xs, ys)
                  /\ EaseOutSlope(xs, ys)
                        = RDiv(RMul(R(2), RSub(ys[2], v.y2)), RSub(xs[4], xs[3]))
                  /\ EaseOutSlope(xs, ys) = LinearPieceSlope(xs, ys)

\* C20, what the code satisfies: the pieces meet at the joins, with the
\* slopes the quadratic pieces are stated to have; both of those slopes are
\* (to_y - from_y) / (x3 - x0), which is not the slope of the linear piece
C20_EaseContinuousAtJoins ==
    (icall.op = "ease_inout" /\ EaseProper(icall.x_vals, icall.args)) =>
        LET xs == icall.x_vals
            ys == icall.args
            v == EaseLocals(xs[1], xs[2], xs[3], xs[4], ys[1], ys[2]).val
            overall == RDiv(RSub(ys[2], ys[1]), RSub(xs[4], xs[1]))
        IN  /\ iret.exc = "none"
            /\ icall.x = xs[2] => (iret.val = EaseInValue(xs, ys) /\ iret.val = v.y1)
            /\ icall.x = xs[3] => (iret.val = EaseOutValue(xs, ys) /\ iret.val = v.y2)
            /\ EaseInSlope(xs, ys) = overall
            /\ EaseInSlope(xs, ys) = RDiv(RMul(R(2), RSub(v.y1, ys[1])), RSub(xs[2], xs[1]))
            /\ EaseOutSlope(xs, ys) = overall
            /\ EaseOutSlope(xs, ys) = RDiv(RMul(R(2), RSub(ys[2], v.y2)), RSub(xs[4], xs[3]))
            /\ LinearPieceSlope(xs, ys) # overall

\* breakpoints 0, 1, 2, 3 and range 0 to 3, at the join 1: the value is 1/2,
\* the quadratic piece arrives with slope 1, the linear piece leaves with 2
C20_SlopeJumps ==
    /\ icall.op = "ease_inout"
    /\ icall.x_vals = <<R(0), R(1), R(2), R(3)>> /\ icall.args = <<R(0), R(3)>>
    /\ icall.x = R(1)
    /\ iret = Return(RNorm(1, 2))
    /\ EaseInSlope(icall.x_vals, icall.args) = R(1)
    /\ LinearPieceSlope(icall.x_vals, icall.args) = R(2)

(***************************************************************************)
(* Claims about make_draw, under SpecMade.                                 *)
(***************************************************************************)
IsSetting(s) == s.type = "tuple" /\ Len(s.items) = 2 /\ s.items[1].type = "str"

\* the settings s1..sk of a make_draw call, given one by one or as one tuple
GivenSettings(args) ==
    IF \A k \in 1..Len(args) : IsSetting(args[k]) THEN args ELSE args[1].items

\* the arguments setting s resolves to at time t
ResolvedArgs(s, t) ==
    LET second == s.items[2]
    IN  IF second.type = "function" /\ second.tag = "true"
        THEN eval_tuple(second.p[1], t).items
        ELSE [k \in 1..Len(second.items) |->
                 LET a == second.items[k]
                 IN  IF a.type = "function" /\ a.tag = "true"
                     THEN Number(Apply(a, t)) ELSE a]

AppliedSettings == made.op = "make_draw" /\ mret # NoEval

\* C21: the draw procedure make_draw(s1, ..., sk) returns, called with (g, t),
\* invokes on g the named operations of s1..sk in the given order, each exactly
\* once; a second element that is an interpolator is evaluated at t to give
\* the whole argument tuple, otherwise each element of the tuple is evaluated
\* at t if it is an interpolator and passed unchanged if it is a constant.
C21_MakeDrawAppliesInOrder ==
    (AppliedSettings /\ mret.exc = "none") =>
        LET settings == GivenSettings(made.args)
            log == mret.val.calls
        IN  /\ Len(log) = Len(settings)
            /\ \A k \in 1..Len(settings) :
                  /\ log[k].op = settings[k].items[1].p[1]
                  /\ log[k].arg = ResolvedArgs(settings[k], mret.x)

\* C21, its case: two settings given one by one were applied at a time other
\* than 0, the first with a tuple holding an interpolator and a function that
\* is not one, the second with an interpolator for the whole tuple.
C21_Witness ==
    /\ AppliedSettings /\ mret.exc = "none"
    /\ Len(made.args) = 2
    /\ mret.x = RNorm(1, 2)
    /\ made.args[1].items[1].p[1] = "scale" /\ made.args[2].items[1].p[1] = "translate"
    /\ made.args[1].items[2].type = "tuple"
    /\ Len(made.args[1].items[2].items) = 2
    /\ is_interpolator(made.args[1].items[2].items[1])
    /\ made.args[1].items[2].items[2].tag = "absent"
    /\ made.args[1].items[2].items[2].type = "function"
    /\ is_interpolator(made.args[2].items[2])
    /\ Len(mret.val.calls) = 2

\* C21, the settings given as one tuple: the same calls are made.
C21_TupleWitness ==
    /\ AppliedSettings /\ mret.exc = "none"
    /\ Len(made.args) = 1 /\ ~IsSetting(made.args[1])
    /\ Len(mret.val.calls) = 2

\* a method name the context does not have ends apply_settings with
\* AttributeError, after the calls of the settings before it
MakeDrawUnknownMethod ==
    (AppliedSettings /\ mret.exc # "none") =>
        /\ mret.exc = "AttributeError"
        /\ \E k \in 1..Len(GivenSettings(made.args)) :
              /\ GivenSettings(made.args)[k].items[1].p[1] \notin ContextMethods
              /\ Len(mret.val.calls) = k - 1

(***************************************************************************)
(* Claims about piecewise_sequential_interpolator and draw_sequential,     *)
(* under SpecMade.                                                         *)
(***************************************************************************)
\* d_1 + ... + d_k
RECURSIVE SumTo(_, _)
SumTo(items, k) == IF k = 0 THEN R(0) ELSE RAdd(SumTo(items, k - 1), items[k][1])

\* b_k = offset + duration * (d_1 + ... + d_k) / (d_1 + ... + d_m)
BoundaryAt(a, k) ==
    RAdd(a.offset, RDiv(RMul(a.duration, SumTo(a.items, k)), SumTo(a.items, Len(a.items))))

SequentialMade ==
    /\ made.op \in {"piecewise_sequential_interpolator", "draw_sequential"}
    /\ made.exc = "none"

\* the boundaries built are b_0..b_m, from offset to offset + duration
BoundariesBuilt ==
    LET a == made.args
        m == Len(a.items)
    IN  /\ Len(made.x_vals) = m + 1
        /\ \A k \in 0..m : PyGet(made.x_vals, k) = BoundaryAt(a, k)
        /\ PyGet(made.x_vals, 0) = a.offset
        /\ PyGet(made.x_vals, m) = RAdd(a.offset, a.duration)

\* draw_sequential's procedure called at t invokes before, after (null_draw
\* for None) or the item whose interval holds t
SequentialSelected ==
    LET a == made.args
        m == Len(a.items)
        t == mret.x
        i == mret.val.i
    IN  /\ mret.exc = "none"
        /\ RLt(t, a.offset) =>
              /\ i = 0
              /\ PyGet(made.fn.args, i) = IF a.before = None THEN null_draw ELSE a.before
              /\ a.before = None => Len(mret.val.calls) = 1
        /\ RGe(t, RAdd(a.offset, a.duration)) =>
              /\ i = m + 1
              /\ PyGet(made.fn.args, i) = IF a.after = None THEN null_draw ELSE a.after
              /\ a.after = None => Len(mret.val.calls) = 1
        /\ \A k \in 1..m :
              (RLe(BoundaryAt(a, k - 1), t) /\ RLt(t, BoundaryAt(a, k))) =>
                  (i = k /\ PyGet(made.fn.args, i) = a.items[k][2])

\* C22: piecewise_sequential_interpolator(items, duration, offset) and
\* draw_sequential(items, before, after, duration, offset) both build the
\* boundaries b_k = offset + duration * (d_1 + ... + d_k) / (d_1 + ... + d_m),
\* so b_0 = offset and b_m = offset + duration; draw_sequential then invokes
\* before (nothing when None) for t < offset, after (nothing when None) for
\* t >= offset + duration, and the k-th item's procedure for b_{k-1} <= t < b_k.
C22_SequentialBoundaries ==
    SequentialMade =>
        /\ BoundariesBuilt
        /\ (made.op = "draw_sequential" /\ mret # NoEval) => SequentialSelected

\* C22 in exact arithmetic: it holds when durations and offset are Fractions.
C22_SequentialInFractions ==
    (SequentialMade /\ made.args.num = "Fraction") =>
        /\ BoundariesBuilt
        /\ (made.op = "draw_sequential" /\ mret # NoEval) => SequentialSelected

\* C22 in exact arithmetic, its case: three items of different durations with
\* before and after given, called inside the second item's interval.
C22_FractionWitness ==
    /\ made.op = "draw_sequential" /\ made.exc = "none" /\ mret # NoEval
    /\ made.args.num = "Fraction"
    /\ Len(made.args.items) = 2
    /\ made.args.items[1][1] # made.args.items[2][1]
    /\ made.args.before # None /\ made.args.after # None
    /\ made.args.offset # R(0)
    /\ mret.val.i = 2
    /\ RLt(BoundaryAt(made.args, 1), mret.x)

\* C22 in floats: x * duration / total_x is rounded twice, the last boundary
\* falls below offset + duration, and at a time from there on but before
\* offset + duration, after is invoked, not the last item.
C22_FloatEndBoundaryEarly ==
    /\ made.op = "draw_sequential" /\ made.exc = "none" /\ mret # NoEval
    /\ made.args.num = "float"
    /\ RLt(mret.x, RAdd(made.args.offset, made.args.duration))
    /\ RLe(PyGet(made.x_vals, -1), mret.x)
    /\ mret.val.i = Len(made.args.items) + 1

(***************************************************************************)
(* Claims about matrix_interpolator, under SpecMade.                       *)
(***************************************************************************)
\* the interpolators f1..fk of a matrix_interpolator call, given one by one
\* or as one tuple
GivenMatrices(args) ==
    IF Len(args) = 1 /\ args[1].type = "tuple" THEN args[1].items ELSE args

\* the value at t of an argument: a constant matrix is its own value
ValueAt(f, t) == IF f.type = "Matrix" THEN f ELSE MatrixAt(f, t)

\* f_k(t) * (f_k+1(t) * (... * f_n(t)))
RECURSIVE ProductFrom(_, _, _)
ProductFrom(fs, k, t) ==
    IF k > Len(fs) THEN identity
    ELSE MatMul(ValueAt(fs[k], t), ProductFrom(fs, k + 1, t))

MatrixEvaluated == made.op = "matrix_interpolator" /\ mret # NoEval

\* C23: matrix_interpolator(f1, ..., fk) evaluated at t returns the product
\* identity * f1(t) * f2(t) * ... * fk(t), the factors in the order given (the
\* first leftmost), each fi evaluated exactly once at the same t; with no
\* arguments it returns the identity.
C23_MatrixProductInOrder ==
    MatrixEvaluated =>
        LET fs == GivenMatrices(made.args)
        IN  /\ mret.exc = "none"
            /\ mret.val.result = MatMul(identity, ProductFrom(fs, 1, mret.x))
            /\ mret.val.evals = [k \in 1..Len(fs) |-> <<k, mret.x>>]
            /\ Len(fs) = 0 => mret.val.result = identity

\* C23, its case: three interpolators given one by one whose matrices do not
\* commute, evaluated at a time where the product differs from the product
\* in the opposite order.
C23_Witness ==
    /\ MatrixEvaluated
    /\ Len(made.args) = 3
    /\ made.args[1].kind = "shear_x" /\ made.args[2].type = "Matrix"
    /\ made.args[3].kind = "scale_x"
    /\ mret.x = RNorm(3, 2)
    /\ mret.val.result # MatMul(MatMul(ValueAt(made.args[3], mret.x),
                                        ValueAt(made.args[2], mret.x)),
                                 ValueAt(made.args[1], mret.x))

\* C23, no arguments: the identity is returned.
C23_EmptyWitness ==
    /\ MatrixEvaluated
    /\ made.args = <<>>
    /\ mret.val.result = identity

(***************************************************************************)
(* Claims about the order of render_anim's steps, under SpecRender.        *)
(***************************************************************************)
\* the steps of one frame, in the order of the loop body
FrameCycle == <<"save", "call", "restore", "flush", "write_to_png">>

\* C24: in render_anim the setup callback, when given, runs exactly once and
\* before the first frame is drawn; each frame performs, in this order, save,
\* draw_frame(g, t), restore, flush, write-file; and all five steps of frame n
\* complete before the save of frame n + 1.
C24_RenderStepsInOrder ==
    rpc \notin {"idle", "presetup"} =>
        LET steps == EventsOf(calls, "render_anim", {"save", "call", "restore", "flush",
                                                      "write_to_png"})
            setups == EventsOf(calls, "overall_presetup", {"call"})
            from == rcall.start_frame_nr
            self == FrameTimeCalc(rcall.start_time, rcall.end_time, rcall.frame_rate,
                                  rcall.start_frame_nr)
        IN  /\ Len(setups) = IF rcall.overall_presetup # None THEN 1 ELSE 0
            /\ Len(setups) = 1 => (calls[1] = setups[1] /\ setups[1].arg[1] = 0)
            /\ \A k \in 1..Len(steps) :
                  LET n == from + (k - 1) \div 5
                  IN  /\ steps[k].op = FrameCycle[((k - 1) % 5) + 1]
                      /\ steps[k].op = "call" => steps[k].arg = <<n, frame_to_time(self, n)>>
                      /\ steps[k].op = "write_to_png" => steps[k].arg = FileName(n)
            /\ rpc = "returned" => Len(steps) = 5 * Len(files)
            /\ rpc = "save" => Len(steps) % 5 = 0

\* C24, its case: a render with a setup callback and a first frame other than
\* frame 0 has returned after three or more frames.
C24_Witness ==
    /\ rpc = "returned"
    /\ rcall.overall_presetup # None
    /\ rcall.start_frame_nr = 2
    /\ rcall.draw_frame = Proc("translate")
    /\ Len(files) >= 3
    /\ Len(EventsOf(calls, "render_anim", {"flush"})) = Len(files)

(***************************************************************************)
(* Claims about the segment scan of piecewise_interpolator, under          *)
(* SpecInterp.                                                             *)
(***************************************************************************)
\* the first segment whose upper boundary is at or above x, the last segment
\* when there is none
ScannedSegment(B, x) ==
    LET S == {i \in 0..(Len(B) - 2) : RGe(PyGet(B, i + 1), x)}
    IN  IF S = {} THEN Len(B) - 2 ELSE CHOOSE i \in S : \A j \in S : i <= j

\* the sum over j < i of I[j](1) - I[j+1](0)
RECURSIVE OffsetSum(_, _)
OffsetSum(I, i) ==
    IF i = 0 THEN R(0)
    ELSE RAdd(OffsetSum(I, i - 1),
              RSub(Apply(PyGet(I, i - 1), R(1)), Apply(PyGet(I, i), R(0))))

\* C25: piecewise_interpolator(B, I) selects its segment by scanning forward
\* from the first boundary and the scan terminates for every x: an x below
\* B[0] is evaluated with segment 0 (extrapolated, zero offset, no error), an
\* x above the last boundary with the last segment n-2 (extrapolated), and
\* for segment i the result is I[i]((x - B[i]) / (B[i+1] - B[i])) plus the sum
\* over j < i of I[j](1) - I[j+1](0).
C25_PiecewiseScan ==
    icall.op = "piecewise" =>
        LET B == icall.x_vals
            I == EnsureAll(icall.args)
            x == icall.x
            n == Len(B)
            scan == interpolate(B, I, x)
            i == ScannedSegment(B, x)
        IN  /\ iret.exc = "none"
            /\ scan.i = i
            /\ RLt(x, PyGet(B, 0)) => (scan.i = 0 /\ scan.y_offset = R(0))
            /\ RGt(x, PyGet(B, n - 1)) => scan.i = n - 2
            /\ scan.y_offset = OffsetSum(I, i)
            /\ iret.val =
                  RAdd(Apply(PyGet(I, i),
                             RDiv(RSub(x, PyGet(B, i)), RSub(PyGet(B, i + 1), PyGet(B, i)))),
                       OffsetSum(I, i))

\* C25, its case below the first boundary: the first segment's interpolator is
\* not a constant and gives the value it takes at a negative position.
C25_Witness ==
    /\ icall.op = "piecewise"
    /\ Len(icall.x_vals) = 3
    /\ RLt(icall.x, PyGet(icall.x_vals, 0))
    /\ icall.args[1].kind = "linear"
    /\ iret.exc = "none"
    /\ iret.val # Apply(icall.args[1], R(0))
    /\ iret.val = Apply(icall.args[1],
                        RDiv(RSub(icall.x, PyGet(icall.x_vals, 0)),
                             RSub(PyGet(icall.x_vals, 1), PyGet(icall.x_vals, 0))))

\* C25, its case above the last boundary: the last of three segments is
\* evaluated past position 1, with an offset that is not 0.
C25_AboveWitness ==
    /\ icall.op = "piecewise"
    /\ Len(icall.x_vals) = 4
    /\ RGt(icall.x, PyGet(icall.x_vals, 3))
    /\ icall.args[3].kind \in {"linear", "square"}
    /\ interpolate(icall.x_vals, EnsureAll(icall.args), icall.x).i = 2
    /\ OffsetSum(EnsureAll(icall.args), 2) # R(0)
    /\ iret.exc = "none"

(***************************************************************************)
(* draw_curve, draw_curve_discrete: closing the path                       *)
(***************************************************************************)
\* the whole curve drawn closed in at least two steps
WholeClosedCurve(op) ==
    /\ dcall.op = op
    /\ dpc = "returned"
    /\ dcall.closed
    /\ dcall.start = R(0)
    /\ dcall.end = R(1)
    /\ dcall.nr_steps >= 2

\* the call that precedes the final stroke
BeforeStroke == calls[Len(calls) - 1].op

\* C26: draw_curve_discrete called with closed = True for the whole curve
\* (start = 0, end = 1, nr_steps >= 2) issues close_path for the final
\* subcurve before stroke.
C26_DiscreteClosesLastSubcurve ==
    WholeClosedCurve("draw_curve_discrete") =>
        /\ calls[Len(calls)].op = "stroke"
        /\ BeforeStroke = "close_path"

\* C26, what the code does: the whole closed curve in two or more steps is
\* stroked straight after its last line_to, the final subcurve left open, and
\* close_path is issued only between subcurves.
C26_LastSubcurveLeftOpen ==
    WholeClosedCurve("draw_curve_discrete") =>
        /\ calls[Len(calls)].op = "stroke"
        /\ BeforeStroke = "line_to"
        /\ Len(EventsOf(calls, "draw_curve_discrete", {"close_path"})) =
              Len(EventsOf(calls, "draw_curve_discrete", {"new_sub_path"}))

\* C26, the other half of the claim: draw_curve closes the whole curve before
\* stroke.
C26_CurveClosesPath ==
    WholeClosedCurve("draw_curve") =>
        /\ calls[Len(calls)].op = "stroke"
        /\ BeforeStroke = "close_path"

\* C26, the failing call: draw_curve_discrete(g, f, True, 4) draws its four
\* points and strokes them without any close_path.
C26_OpenCurveDrawn ==
    /\ WholeClosedCurve("draw_curve_discrete")
    /\ dcall.nr_steps = 4
    /\ dcall.subcurve = "default"
    /\ Len(EventsOf(calls, "draw_curve_discrete", {"line_to"})) = 4
    /\ EventsOf(calls, "draw_curve_discrete", {"close_path"}) = <<>>

\* C26: draw_curve reaches its close_path for the whole curve in four steps.
C26_CurveWitness ==
    /\ WholeClosedCurve("draw_curve")
    /\ dcall.nr_steps = 4
    /\ Len(EventsOf(calls, "draw_curve", {"line_to"})) = 4
    /\ Len(EventsOf(calls, "draw_curve", {"close_path"})) = 1

\* C26: a whole closed curve of one step is the only one draw_curve_discrete
\* closes before stroke.
C26_OneStepClosed ==
    /\ dcall.op = "draw_curve_discrete"
    /\ dpc = "returned"
    /\ dcall.closed
    /\ dcall.start = R(0)
    /\ dcall.end = R(1)
    /\ dcall.nr_steps = 1
    /\ BeforeStroke = "close_path"

(***************************************************************************)
(* each_frame: the times of the pairs                                      *)
(***************************************************************************)
\* the pairs a generator has yielded lie in [start_time, end_time), start at
\* (start_time, start_frame_nr) and are 1 / frame_rate apart
PairsInRange(self, out) ==
    /\ \A k \in 1..Len(out) :
          /\ RLe(self.start_time, out[k][1])
          /\ RLt(out[k][1], self.end_time)
    /\ out # <<>> => out[1] = <<self.start_time, self.start_frame_nr>>
    /\ \A k \in 1..(Len(out) - 1) :
          /\ RLt(out[k][1], out[k + 1][1])
          /\ RSub(out[k + 1][1], out[k][1]) = RDiv(R(1), self.frame_rate)

\* C27: every pair (t, n) produced by each_frame satisfies
\* start_time <= t < end_time in both final_partial modes; the first pair is
\* (start_time, start_frame_nr) and the times increase by exactly
\* 1 / frame_rate.
C27_EachFrameTimes ==
    \A id \in GenIds : Started(gens[id]) => PairsInRange(frame_times, gens[id].out)

\* C27 in exact arithmetic: with Fraction times and rate the pairs are as
\* stated.
C27_EachFrameTimesInFractions ==
    frame_times.num = "Fraction" =>
        \A id \in GenIds : Started(gens[id]) => PairsInRange(frame_times, gens[id].out)

\* C27, its case in exact arithmetic: a generator made with final_partial =
\* True is exhausted after three or more frames, the last of them a partial
\* one, and the first frame is not frame 0.
C27_FractionWitness ==
    /\ frame_times.num = "Fraction"
    /\ frame_times.start_frame_nr = 2
    /\ RGt(frame_times.start_time, R(0))
    /\ frame_times.frame_rate = RNorm(3, 2)
    /\ gens[1].state = "exhausted"
    /\ gens[1].final_partial
    /\ Len(gens[1].out) >= 3
    /\ time_to_frame(frame_times, frame_times.end_time, TRUE)
         # time_to_frame(frame_times, frame_times.end_time, FALSE)

\* C27, the failing case: with float times a generator made with
\* final_partial = True yields a frame whose time is not before end_time.
C27_FloatFrameAtEnd ==
    /\ frame_times.num = "float"
    /\ gens[1].final_partial
    /\ \E k \in 1..Len(gens[1].out) : RGe(gens[1].out[k][1], frame_times.end_time)

\* C27, the failing case: with float times two successive frames are not
\* 1 / frame_rate apart.
C27_FloatFramesUneven ==
    /\ frame_times.num = "float"
    /\ \E k \in 1..(Len(gens[1].out) - 1) :
          RSub(gens[1].out[k + 1][1], gens[1].out[k][1]) # RDiv(R(1), frame_times.frame_rate)

(***************************************************************************)
(* render_anim: the progress line                                          *)
(***************************************************************************)
\* C28: in every progress line "done frame d/T" T is the number of frames to
\* render, to_frame_nr - from_frame_nr, and d counts frames relative to the
\* first rendered frame: 0 <= d <= T for every start_frame_nr.
C28_ProgressWithinTotal ==
    \A k \in 1..Len(stderr) :
        /\ stderr[k].total = rloc.to_frame_nr - rloc.from_frame_nr
        /\ 0 <= stderr[k].done
        /\ stderr[k].done <= stderr[k].total

\* C28, what the code writes: T is the number of frames to render, and d is
\* the absolute number of a frame already written, which is relative to the
\* first rendered frame only when start_frame_nr = 0.
C28_ProgressIsFrameNumber ==
    \A k \in 1..Len(stderr) :
        /\ stderr[k].total = rloc.to_frame_nr - rloc.from_frame_nr
        /\ stderr[k].done >= rcall.start_frame_nr
        /\ stderr[k].done < rloc.to_frame_nr
        /\ \E j \in 1..Len(files) : files[j] = FileName(stderr[k].done)
        /\ rcall.start_frame_nr = 0 => (0 <= stderr[k].done /\ stderr[k].done < stderr[k].total)

\* C28, the failing case: rendering from start_frame_nr = 2, a progress line
\* reports more frames done than the total.
C28_DoneAboveTotal ==
    /\ rcall.start_frame_nr = 2
    /\ \E k \in 1..Len(stderr) : stderr[k].done > stderr[k].total

\* C28, the failing case: rendering from start_frame_nr = -1, the first
\* progress line reports a negative number of frames done.
C28_DoneNegative ==
    /\ rcall.start_frame_nr = -1
    /\ Len(stderr) >= 1
    /\ stderr[1].done < 0

(***************************************************************************)
(* ease_inout_interpolator: construction and end values                    *)
(***************************************************************************)
\* a call with breakpoints x0 <= x1 < x2 <= x3
EaseOrdered == icall.op = "ease_inout" /\ RLt(icall.x_vals[2], icall.x_vals[3])

\* the call got past construction, and returns from_y at x0 and to_y at x3
EaseBuiltWithEnds ==
    LET xs == icall.x_vals
        ys == icall.args
    IN  /\ EaseLocals(xs[1], xs[2], xs[3], xs[4], ys[1], ys[2]).exc = "none"
        /\ icall.x = xs[1] => iret = Return(ys[1])
        /\ icall.x = xs[4] => iret = Return(ys[2])

\* C29: ease_inout_interpolator(x0, x1, x2, x3, from_y, to_y) with
\* x0 <= x1 < x2 <= x3 is constructed without error for every from_y and to_y,
\* from_y = to_y included, where the result is the constant from_y; the
\* interpolator returns from_y at x0 and to_y at x3.
C29_EaseConstructedForEveryRange ==
    EaseOrdered =>
        /\ EaseBuiltWithEnds
        /\ icall.args[1] = icall.args[2] => iret = Return(icall.args[1])

\* C29, what the code does for from_y # to_y: construction succeeds and the
\* end values are from_y and to_y.
C29_EaseEndsForProperRange ==
    (EaseOrdered /\ icall.args[1] # icall.args[2]) => EaseBuiltWithEnds

\* C29, what the code does for from_y = to_y: y1 = y2, and the division by
\* y2 - y1 raises ZeroDivisionError before ease_inout is defined.
C29_ConstantRangeRaises ==
    (EaseOrdered /\ icall.args[1] = icall.args[2]) =>
        /\ EaseLocals(icall.x_vals[1], icall.x_vals[2], icall.x_vals[3], icall.x_vals[4],
                      icall.args[1], icall.args[2]) = Raise("ZeroDivisionError")
        /\ iret = Raise("ZeroDivisionError")

\* C29, the failing call: ease_inout_interpolator(0, 1, 2, 3, 1, 1).
C29_ConstantEaseRaised ==
    /\ icall.op = "ease_inout"
    /\ icall.x_vals = <<R(0), R(1), R(2), R(3)>>
    /\ icall.args = <<R(1), R(1)>>
    /\ iret = Raise("ZeroDivisionError")

\* C29, its case for from_y # to_y: with no easing at the start (x0 = x1) the
\* value at x0 is from_y, and with easing at the end the value at x3 is to_y.
C29_StartWitness ==
    /\ EaseOrdered
    /\ icall.x_vals[1] = icall.x_vals[2]
    /\ icall.x = icall.x_vals[1]
    /\ icall.args = <<R(3), R(1)>>
    /\ iret = Return(R(3))

\* C29, its case at the other end: with easing at the end (x2 < x3) the value
\* at x3 is to_y.
C29_EndWitness ==
    /\ EaseOrdered
    /\ RLt(icall.x_vals[3], icall.x_vals[4])
    /\ icall.x = icall.x_vals[4]
    /\ icall.args = <<R(3), R(1)>>
    /\ iret = Return(R(1))

(***************************************************************************)
(* Slitscan.render: the catch-up loop                                      *)
(***************************************************************************)
\* the times of the columns drawn in this render
ColumnTimes == [k \in 1..Len(EventsOf(calls, "Slitscan.render", {"draw"})) |->
                   EventsOf(calls, "Slitscan.render", {"draw"})[k].arg[1]]

\* the catch-up loop so far: the offset has come down time_steps columns,
\* modulo steps, from the column of the time drawn last, on the way to the
\* column of at_time, one column drawn per step at increasing times
CaughtUpInSteps ==
    LET n == dcall.steps
        times == ColumnTimes
    IN  /\ dcall.base_offset = time_to_offset(dcall, dcall.at_time)
        /\ dcall.base_offset \in 0..(n - 1)
        /\ dcall.this_offset \in 0..(n - 1)
        /\ dcall.time_steps <= n - 1
        /\ Len(times) = dcall.time_steps
        /\ \A k \in 1..(Len(times) - 1) : RLt(times[k], times[k + 1])
        /\ dpc = "while" =>
              ((dcall.this_offset - dcall.base_offset) % n) + dcall.time_steps
                 = ((time_to_offset(dcall, dcall.last_draw_time) - dcall.base_offset) % n)
        /\ dpc \in {"paint", "returned"} =>
              /\ dcall.last_draw_time = dcall.at_time
              /\ dcall.from_time = dcall.at_time => times = <<>>

C30_EarlierWitness ==
    /\ dcall.op = "Slitscan"
    /\ dpc = "returned"
    /\ dcall.renders = 2
    /\ RLt(dcall.at_time, dcall.from_time)
    /\ Len(ColumnTimes) >= 2
    /\ RGt(ColumnTimes[1], dcall.from_time)

\* C30, its case of a second render at the same time: nothing is drawn.
C30_SameTimeWitness ==
    /\ dcall.op = "Slitscan"
    /\ dpc = "returned"
    /\ dcall.renders = 2
    /\ dcall.from_time = dcall.at_time
    /\ ColumnTimes = <<>>
====
